---------------------------- MODULE Spec2Model ----------------------------
(***************************************************************************)
(* A model of the MNEE / Fireblocks transfer core:                         *)
(*   - TransactionService.selectUtxos          (greedy UTXO selection)     *)
(*   - MNEEFireblocksSDK.transferTokensFromVault / transferTokens          *)
(*   - FireblocksService.signMultipleHashes and waitForSignature           *)
(*   - TransactionService.getSignatures / applySignatures                  *)
(* Every await of the TypeScript code is one action of the model: the      *)
(* action that consumes the awaited response runs the synchronous code up  *)
(* to the next await (or to the return / throw).                           *)
(***************************************************************************)
EXTENDS Integers, Sequences, FiniteSets, TLC

(***************************************************************************)
(* Bounds of the model.                                                    *)
(***************************************************************************)
\* longest UTXO list handed to selectUtxos in SpecSel
SelMaxLen == 4
\* largest token amount of one UTXO in SpecSel
SelMaxAmt == 3
\* number of UTXOs the external index holds for the vault
MaxUtxos == 2
\* largest token amount of one indexed UTXO
MaxAmt == 2
\* largest requested amount, in whole satoshi-tokens
MaxRequest == 4
\* longest r and s handed to createDERSignature, in digits (SpecDer)
DerMaxDigits == 6

VARIABLES
    \* ---- the outside world (fixed during a behaviour) ----
    utxoIndex,        \* the cosigner's UTXO index: sequence of UTXO records
    vaultAddresses,   \* BSV addresses of the vault, in the signer's order
    feeTiers,         \* the fee table the cosigner's /config returns
    intents,          \* the transfers the callers of the SDK may ask for
    \* ---- one SDK instance ----
    tokenConfig,      \* MNEEFireblocksSDK.tokenConfig ("null" or the fee table)
    cosignerConfig,   \* CosignerService.config        ("null" or the fee table)
    \* ---- one entry per transfer attempt ----
    pc,               \* where the attempt is (the await it is suspended on)
    req,              \* arguments of transferTokensFromVault
    err,              \* the error thrown to the caller ("none" if none)
    loc,              \* local variables of the two transfer functions
    tx,               \* the draft Transaction object
    job,              \* the remote signing job of the attempt
    calls,            \* number of requests sent to each external collaborator
    \* ---- selectUtxos as a function on its own (SpecSel) ----
    selUtxos, selNeeded, selResult,
    \* ---- createDERSignature as a function on its own (SpecDer) ----
    derR, derS, derScope,   \* the values of signature.r, signature.s; sigHashType
    derResult,              \* what createDERSignature returned or that it threw
    derAgain                \* the same for the (r, s) decoded from derResult

worldVars == <<utxoIndex, vaultAddresses, feeTiers, intents>>
sdkVars   == <<tokenConfig, cosignerConfig>>
selVars   == <<selUtxos, selNeeded, selResult>>
derVars   == <<derR, derS, derScope, derResult, derAgain>>
vars == <<utxoIndex, vaultAddresses, feeTiers, intents, tokenConfig, cosignerConfig,
          pc, req, err, loc, tx, job, calls, selUtxos, selNeeded, selResult,
          derR, derS, derScope, derResult, derAgain>>

(***************************************************************************)
(* Sequence helpers.                                                       *)
(***************************************************************************)
Range(s) == {s[i] : i \in 1..Len(s)}

RemoveAt(s, i) == SubSeq(s, 1, i - 1) \o SubSeq(s, i + 1, Len(s))

RECURSIVE SumAmt(_)
SumAmt(s) == IF s = <<>> THEN 0 ELSE s[1].amt + SumAmt(Tail(s))

MinOf(S) == CHOOSE x \in S : \A y \in S : x <= y
MaxOf(S) == CHOOSE x \in S : \A y \in S : x >= y

\* all sequences over S of length 0..n
RECURSIVE SeqsUpTo(_, _)
SeqsUpTo(S, n) ==
    IF n = 0 THEN {<<>>}
    ELSE LET shorter == SeqsUpTo(S, n - 1)
         IN  shorter \cup {Append(s, x) : s \in {t \in shorter : Len(t) = n - 1}, x \in S}

(***************************************************************************)
(* TransactionService.selectUtxos                                          *)
(***************************************************************************)
\* Array.prototype.sort with (a, b) => b.amt - a.amt: stable, descending.
\* x goes after every element whose amount is >= its own.
RECURSIVE InsertDesc(_, _)
InsertDesc(s, x) ==
    IF s = <<>> THEN <<x>>
    ELSE IF s[1].amt >= x.amt THEN <<s[1]>> \o InsertDesc(Tail(s), x)
    ELSE <<x>> \o s

\* mutant: the copy is not sorted
SortKeepsOrder(s) == s

RECURSIVE SortDesc(_)
SortDesc(s) ==
    IF s = <<>> THEN <<>>
    ELSE InsertDesc(SortDesc(SubSeq(s, 1, Len(s) - 1)), s[Len(s)])

\* mutant: the largest remaining UTXO is taken at every step
PickIndexLargest(pool, gap) == 1

\* the index chosen by one iteration of the while loop
PickIndex(pool, gap) ==
    LET perfect == {i \in 1..Len(pool) : pool[i].amt = gap}
        enough  == {i \in 1..Len(pool) : pool[i].amt >= gap}
    IN  IF perfect # {} THEN MinOf(perfect)
        ELSE IF enough # {} THEN MaxOf(enough)
        ELSE 1

\* mutant: the loop gives up with one UTXO still in the pool
SelectContinuesButLast(pool, tokensIn, amountNeeded) ==
    tokensIn < amountNeeded /\ Len(pool) > 1

\* the while condition
SelectContinues(pool, tokensIn, amountNeeded) ==
    tokensIn < amountNeeded /\ Len(pool) > 0

\* mutant: the final insufficient-funds test is missing
SelectFailsNever(tokensIn, amountNeeded) == FALSE

\* the test after the loop
SelectFails(tokensIn, amountNeeded) == tokensIn < amountNeeded

RECURSIVE SelectLoop(_, _, _, _)
SelectLoop(pool, selected, tokensIn, amountNeeded) ==
    IF SelectContinues(pool, tokensIn, amountNeeded)
    THEN LET i == PickIndex(pool, amountNeeded - tokensIn)
         IN  SelectLoop(RemoveAt(pool, i), Append(selected, pool[i]),
                        tokensIn + pool[i].amt, amountNeeded)
    ELSE IF SelectFails(tokensIn, amountNeeded)
    THEN [ok |-> FALSE, error |-> "InsufficientFunds",
          have |-> tokensIn, need |-> amountNeeded,
          selectedUtxos |-> <<>>, signingAddresses |-> <<>>, tokensIn |-> 0]
    ELSE [ok |-> TRUE, error |-> "none",
          have |-> tokensIn, need |-> amountNeeded,
          selectedUtxos |-> selected,
          signingAddresses |-> [k \in 1..Len(selected) |-> selected[k].owner],
          tokensIn |-> tokensIn]

selectUtxos(utxos, amountNeeded) ==
    SelectLoop(SortDesc(utxos), <<>>, 0, amountNeeded)


(***************************************************************************)
(* Input sets of the transfer pipeline.                                    *)
(***************************************************************************)
Attempts == {1, 2}

\* Amounts a caller passes, in tenths of the smallest token unit (the API takes
\* a decimal number of tokens; tokensToSatoshis rounds it to whole units).
RequestAmounts == {-10, 0, 5, 500} \cup {10 * k : k \in 2..MaxRequest}

Requests ==
    [vaultId : {"", "v1"}, hasAmount : {TRUE}, amount : RequestAmounts,
     grossAmount : BOOLEAN]
    \cup [vaultId : {"", "v1"}, hasAmount : {FALSE}, amount : {0},
          grossAmount : BOOLEAN]

\* Fee tables the cosigner's /config may hold: a regular one, and one with a
\* zero-fee tier, two tiers sharing the amount 3, and no tier for 0 or above 3.
RegularFees ==
    << [min |-> 0, max |-> 2, fee |-> 1], [min |-> 3, max |-> 100, fee |-> 2] >>

FeeTables ==
    { RegularFees,
      << [min |-> 1, max |-> 1, fee |-> 0], [min |-> 2, max |-> 3, fee |-> 1],
         [min |-> 3, max |-> 3, fee |-> 2] >> }

\* the fee table of the documented scenario, and UTXO amounts that can cover it
ScenarioFees ==
    << [min |-> 0, max |-> 100, fee |-> 1], [min |-> 101, max |-> 100000, fee |-> 5] >>

ScenarioAmts == {1, 2, 3, 51}

Vaults == { <<>>, <<"A1", "A2">> }

\* every UTXO index for a vault: up to MaxUtxos outputs, each owned by one of
\* the vault's addresses; the txid of a UTXO is its position in the index
IndexesOver(addresses, amts) ==
    LET cells == [owner : Range(addresses), amt : amts]
    IN  { [i \in 1..Len(s) |->
             [txid |-> i, vout |-> 0, owner |-> s[i].owner, amt |-> s[i].amt]] :
          s \in SeqsUpTo(cells, MaxUtxos) }

Indexes(addresses) == IndexesOver(addresses, 1..MaxAmt)

SuccessStates == {"COMPLETED", "BROADCASTING"}
FailureStates == {"BLOCKED", "CANCELLED", "FAILED", "REJECTED"}
PendingStates == {"SUBMITTED", "PENDING_SIGNATURE"}

CallKinds == {"getVaultAddresses", "fetchUtxos", "fetchConfig", "fetchTransaction",
              "createTransaction", "getTransaction", "submitTransaction"}

(***************************************************************************)
(* token.utils.ts                                                          *)
(***************************************************************************)
\* Math.round(tokenAmount * MNEE_DIVISOR), on an amount given in tenths of a
\* unit: Math.round rounds halves towards +infinity, \div rounds down
tokensToSatoshis(tenths) == (tenths + 5) \div 10

Abs(x) == IF x < 0 THEN -x ELSE x

(***************************************************************************)
(* Fee lookup: tokenConfig.fees.find(f => amount >= f.min && amount <= f.max) *)
(***************************************************************************)
\* mutant: a fee of 0 is taken when no tier contains the amount
FindFeeDefaulting(fees, amount) ==
    LET hit == {i \in 1..Len(fees) : amount >= fees[i].min /\ amount <= fees[i].max}
    IN  IF hit = {} THEN [found |-> TRUE, fee |-> 0]
        ELSE [found |-> TRUE, fee |-> fees[MinOf(hit)].fee]

FindFee(fees, amount) ==
    LET hit == {i \in 1..Len(fees) : amount >= fees[i].min /\ amount <= fees[i].max}
    IN  IF hit = {} THEN [found |-> FALSE, fee |-> 0]
        ELSE [found |-> TRUE, fee |-> fees[MinOf(hit)].fee]

(***************************************************************************)
(* CosignerService.fetchUtxos: the indexed UTXOs owned by the addresses    *)
(***************************************************************************)
\* mutant: UTXOs that an unfinished attempt has selected are held back
fetchUtxosUnselected(addresses) ==
    SelectSeq(utxoIndex,
              LAMBDA u : /\ u.owner \in addresses
                         /\ \A a \in DOMAIN loc :
                               pc[a] \in {"aborted", "done"}
                               \/ \A i \in 1..Len(loc[a].selectedUtxos) :
                                     loc[a].selectedUtxos[i].txid # u.txid)

fetchUtxos(addresses) ==
    SelectSeq(utxoIndex, LAMBDA u : u.owner \in addresses)

(***************************************************************************)
(* Hashes.  SHA-256 is modelled as a free constructor: injective, and never *)
(* equal to its argument.                                                  *)
(***************************************************************************)
Sha256(x) == <<"sha256", x>>

\* crypto.utils.ts doubleHash: one more SHA-256 over the base hash
doubleHash(buffer) == Sha256(buffer)

\* SIGHASH_ALL | SIGHASH_ANYONECANPAY | SIGHASH_FORKID
SigHashType == 1 + 128 + 64

\* TransactionService.createSignatureHash: SHA-256 of the sighash preimage,
\* which covers the input's own outpoint, every output and the scope
createSignatureHash(t, inputIndex, sigHashType) ==
    Sha256(<<t.inputs[inputIndex].sourceTXID, t.inputs[inputIndex].sourceOutputIndex,
             t.outputs, sigHashType>>)

(***************************************************************************)
(* The remote signer's answer to one message.  The raw signature is a      *)
(* function of the signed content; a signer that misbehaves returns an r   *)
(* that does not fit a DER integer.                                        *)
(***************************************************************************)
SignedMessage(m, malformed) ==
    [content   |-> m.content,
     signature |-> [r |-> [fits |-> ~malformed, of |-> m.content],
                    s |-> [fits |-> TRUE, of |-> m.content],
                    v |-> 0],
     publicKey |-> <<"pubKey", m.bip44addressIndex>>]

\* what the signer may return for a job: signed messages for any subset of the
\* submitted messages, in any order
Responses(messages, malformed) ==
    LET signed == {SignedMessage(messages[i], malformed) : i \in 1..Len(messages)}
    IN  {r \in SeqsUpTo(signed, Len(messages)) :
            \A i, j \in 1..Len(r) : r[i] = r[j] => i = j}

(***************************************************************************)
(* crypto.utils.ts createDERSignature, reduced to what the pipeline needs: *)
(* it throws when a component cannot be encoded, and otherwise returns the *)
(* encoded (r, s) followed by the scope byte.                              *)
(***************************************************************************)
createDERSignature(signature, sigHashType) ==
    IF signature.r.fits /\ signature.s.fits
    THEN [ok |-> TRUE,
          sig |-> [der |-> <<signature.r.of, signature.s.of>>, scope |-> sigHashType]]
    ELSE [ok |-> FALSE,
          sig |-> [der |-> <<>>, scope |-> sigHashType]]

(***************************************************************************)
(* crypto.utils.ts toDER / encodeDER / createDERSignature on values.  TLC  *)
(* has no 256-bit integers, so the sizes are scaled: a hex digit is a      *)
(* digit of base DigitBase (16 in the code), a byte is two digits, r and s *)
(* are padded to WordBytes bytes (32), a component may take WordBytes + 1  *)
(* bytes (33), and the curve order is the odd number 3 below the largest   *)
(* padded value (the code's n is an odd number just below 2^256).  A       *)
(* Buffer is a sequence of bytes, most significant first; a hex string is  *)
(* a sequence of digits, in which -1 stands for the character '-'.        *)
(***************************************************************************)
DigitBase == 2

WordBytes == 2

ByteBase == DigitBase * DigitBase

PadDigits == 2 * WordBytes

CurveOrder == DigitBase ^ PadDigits - 3

HalfN == CurveOrder \div 2

\* byte & 0x80
HighBit(byte) == byte >= ByteBase \div 2

\* the digits of a natural number, without leading zeros
RECURSIVE Digits(_)
Digits(v) ==
    IF v < DigitBase THEN <<v>> ELSE Append(Digits(v \div DigitBase), v % DigitBase)

\* BigInt.prototype.toString(16): a negative value prints with a leading '-'
toString16(v) == IF v < 0 THEN <<-1>> \o Digits(-v) ELSE Digits(v)

\* String.prototype.padStart(PadDigits, '0')
padStart(digits) ==
    IF Len(digits) >= PadDigits THEN digits
    ELSE [i \in 1..(PadDigits - Len(digits)) |-> 0] \o digits

\* Buffer.from(string, 'hex'): whole pairs of digits are decoded up to the first
\* pair that holds a character that is no digit; a trailing single digit is dropped
RECURSIVE BufferFromHex(_)
BufferFromHex(digits) ==
    IF Len(digits) < 2 \/ digits[1] < 0 \/ digits[2] < 0 THEN <<>>
    ELSE <<digits[1] * DigitBase + digits[2]>> \o BufferFromHex(SubSeq(digits, 3, Len(digits)))

toDER(buffer) ==
    LET nonZero == {i \in 1..Len(buffer) : buffer[i] # 0}
        rest    == SubSeq(buffer, MinOf(nonZero), Len(buffer))
    IN  IF nonZero = {} THEN <<0>>
        ELSE IF HighBit(rest[1]) THEN <<0>> \o rest
        ELSE rest

\* the tag and length bytes keep their value: 0x30 = 48, 0x02 = 2,
\* signature.length - 2 = 4 + lenR + lenS
encodeDER(r, s) ==
    LET lenR == Len(r)
        lenS == Len(s)
        thrown(e) == [ok |-> FALSE, error |-> e, bytes |-> <<>>]
    IN  IF lenR = 0 THEN thrown("R length is zero")
        ELSE IF lenS = 0 THEN thrown("S length is zero")
        ELSE IF lenR > WordBytes + 1 THEN thrown("R length is too long")
        ELSE IF lenS > WordBytes + 1 THEN thrown("S length is too long")
        ELSE IF HighBit(r[1]) THEN thrown("R value is negative")
        ELSE IF HighBit(s[1]) THEN thrown("S value is negative")
        ELSE IF lenR > 1 /\ r[1] = 0 /\ ~HighBit(r[2]) THEN thrown("R value excessively padded")
        ELSE IF lenS > 1 /\ s[1] = 0 /\ ~HighBit(s[2]) THEN thrown("S value excessively padded")
        ELSE [ok |-> TRUE, error |-> "none",
              bytes |-> <<48, 4 + lenR + lenS, 2, lenR>> \o r \o <<2, lenS>> \o s]

\* mutant: s is always replaced by n - s
NormalizedSAlways(s) == CurveOrder - s

\* let normalizedS = s; if (s > halfN) normalizedS = n - s
NormalizedS(s) == IF s > HalfN THEN CurveOrder - s ELSE s

\* createDERSignature on the values of signature.r and signature.s; the result
\* is the DER bytes followed by the sighash byte
createDERSignatureOf(r, s, sigHashType) ==
    LET rBuffer == BufferFromHex(padStart(toString16(r)))
        sBuffer == BufferFromHex(padStart(toString16(NormalizedS(s))))
        derSig  == encodeDER(toDER(rBuffer), toDER(sBuffer))
    IN  IF derSig.ok
        THEN [ok |-> TRUE, error |-> "none", sig |-> Append(derSig.bytes, sigHashType)]
        ELSE [ok |-> FALSE, error |-> derSig.error, sig |-> <<>>]

\* the sighash types handed to createDERSignature: ALL, ALL|FORKID,
\* ALL|ANYONECANPAY|FORKID
SigHashTypes == {1, 1 + 64, 1 + 128 + 64}

(***************************************************************************)
(* FireblocksService.signMultipleHashes, the part after waitForSignature   *)
(***************************************************************************)
\* mutant: the k-th signed message is taken for the k-th request
MatchingSignatureByPosition(signedMessages, hash, k) ==
    IF k <= Len(signedMessages) THEN k ELSE 0

\* signedMessages.find(m => m.content === doubleHashHex): the position of the
\* first signed message with that content, 0 for undefined (k is the position
\* of the request being matched)
MatchingSignature(signedMessages, hash, k) ==
    LET hit == {i \in 1..Len(signedMessages) :
                   signedMessages[i].content = doubleHash(hash)}
    IN  IF hit = {} THEN 0 ELSE MinOf(hit)

\* mutant: requests without a signed message are skipped instead of failing
MatchSignaturesSkipping(sigHashesWithIndex, signedMessages) ==
    LET n == Len(sigHashesWithIndex)
        at(k) == MatchingSignature(signedMessages, sigHashesWithIndex[k].hash, k)
        found == SelectSeq([k \in 1..n |-> k], LAMBDA k : at(k) # 0)
    IN  IF signedMessages = <<>>
        THEN [error |-> "NoSignedMessages", inputIndex |-> 0, signatures |-> <<>>]
        ELSE [error |-> "none", inputIndex |-> 0,
              signatures |->
                [j \in 1..Len(found) |->
                   [inputIndex |-> sigHashesWithIndex[found[j]].inputIndex,
                    signature  |-> [r |-> signedMessages[at(found[j])].signature.r,
                                    s |-> signedMessages[at(found[j])].signature.s,
                                    v |-> signedMessages[at(found[j])].signature.v,
                                    pubKey |-> signedMessages[at(found[j])].publicKey]]]]

\* the check of the response and the match of every request, in request order
MatchSignatures(sigHashesWithIndex, signedMessages) ==
    LET n == Len(sigHashesWithIndex)
        at(k) == MatchingSignature(signedMessages, sigHashesWithIndex[k].hash, k)
        unmatched == {k \in 1..n : at(k) = 0}
    IN  IF signedMessages = <<>>
        THEN [error |-> "NoSignedMessages", inputIndex |-> 0, signatures |-> <<>>]
        ELSE IF unmatched # {}
        THEN [error |-> "UnmatchedSignature",
              inputIndex |-> sigHashesWithIndex[MinOf(unmatched)].inputIndex,
              signatures |-> <<>>]
        ELSE [error |-> "none", inputIndex |-> 0,
              signatures |->
                [k \in 1..n |->
                   [inputIndex |-> sigHashesWithIndex[k].inputIndex,
                    signature  |-> [r |-> signedMessages[at(k)].signature.r,
                                    s |-> signedMessages[at(k)].signature.s,
                                    v |-> signedMessages[at(k)].signature.v,
                                    pubKey |-> signedMessages[at(k)].publicKey]]]]

(***************************************************************************)
(* TransactionService.prepareSignatureRequests / getSignatures /           *)
(* applySignatures.  Input indices are positions 1..n of tx.inputs.        *)
(***************************************************************************)
prepareSignatureRequests(t, signingAddresses, bip44AddressIndexes) ==
    [i \in 1..Len(t.inputs) |->
       [prevTxid |-> t.inputs[i].sourceTXID, outputIndex |-> t.inputs[i].sourceOutputIndex,
        inputIndex |-> i, address |-> signingAddresses[i],
        bip44AddressIndex |-> bip44AddressIndexes[i], sigHashType |-> SigHashType]]

\* the hashes getSignatures hands to signMultipleHashes
HashesWithIndices(t, sigRequests) ==
    [k \in 1..Len(sigRequests) |->
       [hash |-> createSignatureHash(t, sigRequests[k].inputIndex, sigRequests[k].sigHashType),
        inputIndex |-> sigRequests[k].inputIndex,
        sigHashType |-> sigRequests[k].sigHashType,
        bip44AddressIndex |-> sigRequests[k].bip44AddressIndex]]

\* mutant: only the hash of the first input is sent
MessagesFirstOnly(sigHashesWithIndex) ==
    [k \in 1..(IF sigHashesWithIndex = <<>> THEN 0 ELSE 1) |->
       [content |-> doubleHash(sigHashesWithIndex[k].hash),
        bip44addressIndex |-> sigHashesWithIndex[k].bip44AddressIndex]]

\* the messages of the one signing job
Messages(sigHashesWithIndex) ==
    [k \in 1..Len(sigHashesWithIndex) |->
       [content |-> doubleHash(sigHashesWithIndex[k].hash),
        bip44addressIndex |-> sigHashesWithIndex[k].bip44AddressIndex]]

\* getSignatures after signMultipleHashes returned: one DER signature per result
getSignaturesResult(t, sigRequests, signedMessages) ==
    LET matched == MatchSignatures(HashesWithIndices(t, sigRequests), signedMessages)
        der(k)  == createDERSignature(matched.signatures[k].signature,
                       (CHOOSE q \in Range(sigRequests) :
                           q.inputIndex = matched.signatures[k].inputIndex).sigHashType)
    IN  IF matched.error # "none"
        THEN [error |-> matched.error, signatures |-> <<>>]
        ELSE IF \E k \in 1..Len(matched.signatures) : ~der(k).ok
        THEN [error |-> "InvalidSignatureComponent", signatures |-> <<>>]
        ELSE [error |-> "none",
              signatures |-> [k \in 1..Len(matched.signatures) |->
                                [inputIndex |-> matched.signatures[k].inputIndex,
                                 sig |-> der(k).sig,
                                 pubKey |-> matched.signatures[k].signature.pubKey]]]

\* mutant: the same input (the first) is written for every signature
applySignaturesFirstOnly(t, signatures) ==
    [t EXCEPT !.inputs =
        [i \in 1..Len(t.inputs) |->
            IF i = 1 /\ signatures # <<>>
            THEN [t.inputs[i] EXCEPT
                    !.unlockingScript = [empty |-> FALSE, sig |-> signatures[1].sig,
                                         pubKey |-> signatures[1].pubKey],
                    !.writes = @ + Len(signatures)]
            ELSE t.inputs[i]]]

\* for each signature: tx.inputs[inputIndex].unlockingScript = userUnlock(sig, pubKey);
\* writes counts the assignments made to an input
applySignatures(t, signatures) ==
    [t EXCEPT !.inputs =
        [i \in 1..Len(t.inputs) |->
            LET mine == {k \in 1..Len(signatures) : signatures[k].inputIndex = i}
            IN  IF mine = {} THEN t.inputs[i]
                ELSE [t.inputs[i] EXCEPT
                        !.unlockingScript =
                            [empty |-> FALSE, sig |-> signatures[MaxOf(mine)].sig,
                             pubKey |-> signatures[MaxOf(mine)].pubKey],
                        !.writes = @ + Cardinality(mine)]]]

(***************************************************************************)
(* MNEEFireblocksSDK.transferTokensFromVault: the synchronous code between *)
(* the UTXO / config responses and the call of transferTokens.             *)
(***************************************************************************)
VaultPlan(r, addresses, utxos, fees) ==
    LET total    == SumAmt(utxos)
        feeTotal == FindFee(fees, total)
        sat      == tokensToSatoshis(r.amount)
        feeSat   == FindFee(fees, sat)
        totalRequired == IF r.grossAmount THEN sat ELSE sat + feeSat.fee
        selected == IF utxos # <<>> THEN utxos[1].owner ELSE addresses[1]
    IN  [error |->
            IF ~r.hasAmount
            THEN IF ~feeTotal.found THEN "NoFeeTierForBalance"
                 ELSE IF total <= feeTotal.fee THEN "InsufficientForFee"
                 ELSE "none"
            ELSE IF ~feeSat.found THEN "NoFeeTier"
                 ELSE IF total < totalRequired THEN "InsufficientBalance"
                 ELSE "none",
         vaultTotal        |-> total,
         satoshiAmount     |-> IF r.hasAmount THEN sat ELSE total,
         grossAmount       |-> IF r.hasAmount THEN r.grossAmount ELSE TRUE,
         selectedAddress   |-> selected,
         \* the BIP44 index of an address is its position in the vault, from 0
         bip44AddressIndex |->
            (CHOOSE i \in 1..Len(addresses) : addresses[i] = selected) - 1]

(***************************************************************************)
(* MNEEFireblocksSDK.transferTokens: gross / net accounting and selection  *)
(***************************************************************************)
IsEmptyingWallet(totalAvailableTokens, amount) ==
    Abs(totalAvailableTokens - amount) < 1

UseGrossAmount(grossAmount, isEmptyingWallet) == grossAmount \/ isEmptyingWallet

\* mutant: the fee is not taken out of a gross amount
TokenSatAmtNoFee(useGrossAmount, amount, fee) == amount

TokenSatAmt(useGrossAmount, amount, fee) ==
    IF useGrossAmount THEN amount - fee ELSE amount

\* mutant: a post-fee amount of exactly 0 is let through
AmountTooSmallStrict(useGrossAmount, tokenSatAmt) == useGrossAmount /\ tokenSatAmt < 0

\* the test made in gross mode only: if (tokenSatAmt <= 0) throw
AmountTooSmall(useGrossAmount, tokenSatAmt) == useGrossAmount /\ tokenSatAmt <= 0

\* mutant: the fee is added to the coverage in both modes
AmountNeededAlwaysPlusFee(useGrossAmount, amount, tokenSatAmt, fee) == amount + fee

AmountNeeded(useGrossAmount, amount, tokenSatAmt, fee) ==
    IF useGrossAmount THEN amount ELSE tokenSatAmt + fee

TransferPlan(amount, grossAmount, utxos, fees) ==
    LET total            == SumAmt(utxos)
        isEmptyingWallet == IsEmptyingWallet(total, amount)
        useGrossAmount   == UseGrossAmount(grossAmount, isEmptyingWallet)
        found            == FindFee(fees, amount)
        fee              == found.fee
        tokenSatAmt      == TokenSatAmt(useGrossAmount, amount, fee)
        amountNeeded     == AmountNeeded(useGrossAmount, amount, tokenSatAmt, fee)
        selection        == selectUtxos(utxos, amountNeeded)
    IN  [error |->
            IF ~found.found THEN "NoFeeTier"
            ELSE IF AmountTooSmall(useGrossAmount, tokenSatAmt) THEN "AmountTooSmall"
            ELSE IF isEmptyingWallet /\ total < fee THEN "InsufficientForFeeEmptying"
            ELSE IF ~selection.ok THEN "InsufficientFunds"
            ELSE "none",
         totalAvailableTokens |-> total,
         isEmptyingWallet |-> isEmptyingWallet,
         useGrossAmount   |-> useGrossAmount,
         fee              |-> fee,
         tokenSatAmt      |-> tokenSatAmt,
         amountNeeded     |-> amountNeeded,
         selection        |-> selection]

\* mutant: the change output is added whatever its amount
OutputsAlwaysChange(tokenSatAmt, fee, changeTokenSatAmt, senderAddress) ==
    << [to |-> "recipient", amt |-> tokenSatAmt], [to |-> "feeAddress", amt |-> fee],
       [to |-> senderAddress, amt |-> changeTokenSatAmt] >>

\* the outputs added to the draft, in order: recipient, fee, change if positive
Outputs(tokenSatAmt, fee, changeTokenSatAmt, senderAddress) ==
    << [to |-> "recipient", amt |-> tokenSatAmt], [to |-> "feeAddress", amt |-> fee] >>
    \o (IF changeTokenSatAmt > 0
        THEN << [to |-> senderAddress, amt |-> changeTokenSatAmt] >>
        ELSE <<>>)

\* tx.addInput({sourceTXID, sourceOutputIndex, sourceTransaction, new UnlockingScript()})
NewInput(utxo) ==
    [sourceTXID |-> utxo.txid, sourceOutputIndex |-> utxo.vout, sourceTransaction |-> TRUE,
     unlockingScript |-> [empty |-> TRUE, sig |-> [der |-> <<>>, scope |-> 0], pubKey |-> <<>>],
     writes |-> 0]

(***************************************************************************)
(* waitForSignature                                                        *)
(***************************************************************************)
\* mutant: the loop ends on any status that is not a pending one
WaitLoopContinuesWhilePending(status) == status \in PendingStates

\* mutant: Rejected is taken for a status that ends the wait
WaitLoopContinuesUnlessRejected(status) == status \notin SuccessStates \cup {"REJECTED"}

\* the while condition: neither Completed nor Broadcasting
WaitLoopContinues(status) == status \notin SuccessStates

\* mutant: no status makes the loop throw
WaitThrowsNever(status) == FALSE

\* the switch after each fetch inside the loop
WaitThrows(status) == status \in FailureStates

(***************************************************************************)
(* CosignerService.submitTransaction: the answers of the cosigner and the  *)
(* error thrown for each.  A message is its text and the phrases the text  *)
(* contains (what String.includes is asked about).                         *)
(***************************************************************************)
NoMessage == [present |-> FALSE, text |-> "", words |-> {}]

CosignerMessages ==
    { NoMessage,
      [present |-> TRUE, text |-> "Sender address is frozen", words |-> {"frozen"}],
      [present |-> TRUE, text |-> "Recipient address is blacklisted",
       words |-> {"blacklisted"}],
      [present |-> TRUE, text |-> "Address is frozen or blacklisted",
       words |-> {"frozen", "blacklisted"}],
      [present |-> TRUE, text |-> "The cosigner is paused", words |-> {"cosigner is paused"}],
      [present |-> TRUE, text |-> "Invalid transaction", words |-> {}] }

NoResponse == [kind |-> "none", status |-> 0, message |-> NoMessage]

\* the request succeeds, fails with an error that is not an AxiosError, fails
\* with an AxiosError that has no response (no status, no body), or is answered
\* with an error status and a body
SubmitResponses ==
    { [kind |-> "accepted", status |-> 200, message |-> NoMessage],
      [kind |-> "otherError", status |-> 0, message |-> NoMessage],
      [kind |-> "noResponse", status |-> 0, message |-> NoMessage] }
    \cup [kind : {"rejected"}, status : {423, 503, 400}, message : CosignerMessages]

\* errorData.message?.includes(phrase)
Includes(message, phrase) == message.present /\ phrase \in message.words

\* mutant: every rejection is reported by the default branch
submitTransactionErrorDefault(response) ==
    IF response.kind = "otherError" THEN "rethrown error"
    ELSE IF response.message.present THEN response.message.text
    ELSE "Transaction rejected by cosigner"

\* the error thrown by the catch block: the message of the Error
submitTransactionError(response) ==
    IF response.kind = "otherError" THEN "rethrown error"
    ELSE IF response.status = 423
    THEN IF Includes(response.message, "frozen")
         THEN "Your address is currently frozen and cannot send tokens"
         ELSE IF Includes(response.message, "blacklisted")
         THEN "The recipient address is blacklisted and cannot receive tokens"
         ELSE "Transaction blocked by cosigner"
    ELSE IF response.status = 503
    THEN IF Includes(response.message, "cosigner is paused")
         THEN "Token transfers are currently paused by the administrator"
         ELSE "Cosigning service temporarily unavailable"
    ELSE IF response.message.present THEN response.message.text
    ELSE "Transaction rejected by cosigner"

(***************************************************************************)
(* Initial values of the per-attempt state.                                *)
(***************************************************************************)
NoRequest == [vaultId |-> "", hasAmount |-> FALSE, amount |-> 0, grossAmount |-> FALSE]

NoLocals ==
    [addresses |-> <<>>, vaultUtxos |-> <<>>, vaultTotal |-> 0,
     satoshiAmount |-> 0, grossAmount |-> FALSE,
     senderAddress |-> "", bip44AddressIndex |-> 0,
     utxos |-> <<>>, totalAvailableTokens |-> 0,
     isEmptyingWallet |-> FALSE, useGrossAmount |-> FALSE,
     fee |-> 0, tokenSatAmt |-> 0, amountNeeded |-> 0,
     selectedUtxos |-> <<>>, signingAddresses |-> <<>>, tokensIn |-> 0,
     sigRequests |-> <<>>, lastStatus |-> "none", waitReturned |-> FALSE,
     signatures |-> <<>>, submitResponse |-> NoResponse]

NoTx == [version |-> 0, inputs |-> <<>>, outputs |-> <<>>]

NoJob == [created |-> 0, status |-> "none", messages |-> <<>>, signedMessages |-> <<>>]

NoCalls == [k \in CallKinds |-> 0]

NoConfig == [loaded |-> FALSE, fees |-> <<>>]

\* one more request to a collaborator (status fetches are only recorded as
\* made or not: the poll loop is unbounded)
Called(c, kind) ==
    [c EXCEPT ![kind] = IF kind = "getTransaction" THEN 1 ELSE @ + 1]

(***************************************************************************)
(* Synchronous continuations.  Each yields the attempt's next pc, error,   *)
(* locals, draft transaction and call counts.                              *)
(***************************************************************************)
Thrown(e, l, t, c) == [pc |-> "aborted", err |-> e, loc |-> l, tx |-> t, calls |-> c]

\* transferTokensFromVault from the fee lookup on, then transferTokens up to
\* its await of fetchUtxos([senderAddress])
AfterConfig(l, r, t, c, fees) ==
    LET plan == VaultPlan(r, l.addresses, l.vaultUtxos, fees)
        l2   == [l EXCEPT !.vaultTotal = plan.vaultTotal,
                          !.satoshiAmount = plan.satoshiAmount,
                          !.grossAmount = plan.grossAmount,
                          !.senderAddress = plan.selectedAddress,
                          !.bip44AddressIndex = plan.bip44AddressIndex]
    IN  IF plan.error # "none" THEN Thrown(plan.error, l, t, c)
        ELSE IF r.vaultId = "" THEN Thrown("VaultIdRequired", l2, t, c)
        ELSE IF plan.satoshiAmount <= 0 THEN Thrown("InvalidAmount", l2, t, c)
        ELSE [pc |-> "senderUtxos", err |-> "none", loc |-> l2, tx |-> t,
              calls |-> Called(c, "fetchUtxos")]

\* transferTokens from the outputs on, through prepareSignatureRequests,
\* getSignatures and signMultipleHashes up to its await of createTransaction
AfterInputs(l, r, t, c) ==
    LET t2 == [t EXCEPT !.outputs =
                  Outputs(l.tokenSatAmt, l.fee, l.tokensIn - l.amountNeeded, l.senderAddress)]
        sigRequests == prepareSignatureRequests(t2, l.signingAddresses,
                           [i \in 1..Len(l.signingAddresses) |-> l.bip44AddressIndex])
    IN  IF \E i \in 1..Len(t2.inputs) : ~t2.inputs[i].sourceTransaction
        THEN Thrown("SourceTransactionNotFound", l, t2, c)
        ELSE IF r.vaultId = ""
        THEN Thrown("VaultIdRequired", [l EXCEPT !.sigRequests = sigRequests], t2, c)
        ELSE [pc |-> "createTransaction", err |-> "none",
              loc |-> [l EXCEPT !.sigRequests = sigRequests], tx |-> t2,
              calls |-> Called(c, "createTransaction")]

\* transferTokens from the gross / net decision to the first fetchTransaction
AfterSenderUtxos(l, r, t, c, fees) ==
    LET utxos == fetchUtxos({l.senderAddress})
        plan  == TransferPlan(l.satoshiAmount, l.grossAmount, utxos, fees)
        l2    == [l EXCEPT !.utxos = utxos,
                           !.totalAvailableTokens = plan.totalAvailableTokens,
                           !.isEmptyingWallet = plan.isEmptyingWallet,
                           !.useGrossAmount = plan.useGrossAmount,
                           !.fee = plan.fee,
                           !.tokenSatAmt = plan.tokenSatAmt,
                           !.amountNeeded = plan.amountNeeded]
        l3    == [l2 EXCEPT !.selectedUtxos = plan.selection.selectedUtxos,
                            !.signingAddresses = plan.selection.signingAddresses,
                            !.tokensIn = plan.selection.tokensIn]
        t2    == [version |-> 1, inputs |-> <<>>, outputs |-> <<>>]
    IN  IF plan.error # "none" THEN Thrown(plan.error, l2, t, c)
        ELSE IF plan.selection.selectedUtxos = <<>> THEN AfterInputs(l3, r, t2, c)
        ELSE [pc |-> "fetchTransaction", err |-> "none", loc |-> l3, tx |-> t2,
              calls |-> Called(c, "fetchTransaction")]

\* signMultipleHashes, getSignatures and transferTokens once waitForSignature
\* has returned, up to the await of submitTransaction
AfterSigned(l, t, c, status, signedMessages) ==
    LET l2  == [l EXCEPT !.lastStatus = status, !.waitReturned = TRUE]
        got == getSignaturesResult(t, l.sigRequests, signedMessages)
    IN  IF got.error # "none" THEN Thrown(got.error, l2, t, c)
        ELSE IF got.signatures = <<>> THEN Thrown("FailedToGetSignatures", l2, t, c)
        ELSE [pc |-> "submitTransaction", err |-> "none",
              loc |-> [l2 EXCEPT !.signatures = got.signatures],
              tx |-> applySignatures(t, got.signatures),
              calls |-> Called(c, "submitTransaction")]

\* assign an attempt's next state
Becomes(a, n) ==
    /\ pc'    = [pc EXCEPT ![a] = n.pc]
    /\ err'   = [err EXCEPT ![a] = n.err]
    /\ loc'   = [loc EXCEPT ![a] = n.loc]
    /\ tx'    = [tx EXCEPT ![a] = n.tx]
    /\ calls' = [calls EXCEPT ![a] = n.calls]

(***************************************************************************)
(* Actions of a transfer attempt a.                                        *)
(***************************************************************************)
\* transferTokensFromVault is called: the vault id is validated and the vault's
\* addresses are requested from the signer service
TransferTokensFromVault(a) ==
    /\ pc[a] = "idle"
    /\ \E r \in intents :
         /\ req' = [req EXCEPT ![a] = r]
         /\ IF r.vaultId = ""
            THEN Becomes(a, Thrown("VaultIdRequired", loc[a], tx[a], calls[a]))
            ELSE Becomes(a, [pc |-> "getVaultAddresses", err |-> "none", loc |-> loc[a],
                             tx |-> tx[a], calls |-> Called(calls[a], "getVaultAddresses")])
    /\ UNCHANGED <<worldVars, sdkVars, job, selVars, derVars>>

\* getVaultAddressesWithIndexes answers (or fails); fetchUtxos(addresses) is sent
VaultAddressesReturn(a) ==
    /\ pc[a] = "getVaultAddresses"
    /\ \E ok \in BOOLEAN :
         IF ~ok
         THEN Becomes(a, Thrown("VaultAddressesFailed", loc[a], tx[a], calls[a]))
         ELSE IF vaultAddresses = <<>>
         THEN Becomes(a, Thrown("NoAddresses", loc[a], tx[a], calls[a]))
         ELSE Becomes(a, [pc |-> "vaultUtxos", err |-> "none",
                          loc |-> [loc[a] EXCEPT !.addresses = vaultAddresses],
                          tx |-> tx[a], calls |-> Called(calls[a], "fetchUtxos")])
    /\ UNCHANGED <<worldVars, sdkVars, req, job, selVars, derVars>>

\* fetchUtxos(addresses) answers; the config is requested unless this SDK has it
VaultUtxosReturn(a) ==
    /\ pc[a] = "vaultUtxos"
    /\ \E ok \in BOOLEAN :
         LET l == [loc[a] EXCEPT !.vaultUtxos = fetchUtxos(Range(loc[a].addresses))]
         IN  IF ~ok
             THEN Becomes(a, Thrown("FetchUtxosFailed", loc[a], tx[a], calls[a]))
             ELSE IF tokenConfig.loaded
             THEN Becomes(a, AfterConfig(l, req[a], tx[a], calls[a], tokenConfig.fees))
             ELSE Becomes(a, [pc |-> "vaultConfig", err |-> "none", loc |-> l, tx |-> tx[a],
                              \* CosignerService.fetchConfig sends a request
                              \* unless its own cache is filled
                              calls |-> IF cosignerConfig.loaded THEN calls[a]
                                        ELSE Called(calls[a], "fetchConfig")])
    /\ UNCHANGED <<worldVars, sdkVars, req, job, selVars, derVars>>

\* fetchConfig answers: both caches are filled and the transfer is planned
ConfigReturn(a) ==
    /\ pc[a] = "vaultConfig"
    /\ \E ok \in BOOLEAN :
         IF ~ok
         THEN /\ Becomes(a, Thrown("FetchConfigFailed", loc[a], tx[a], calls[a]))
              /\ UNCHANGED sdkVars
         ELSE /\ cosignerConfig' = [loaded |-> TRUE, fees |-> feeTiers]
              /\ tokenConfig' = [loaded |-> TRUE, fees |-> feeTiers]
              /\ Becomes(a, AfterConfig(loc[a], req[a], tx[a], calls[a], feeTiers))
    /\ UNCHANGED <<worldVars, req, job, selVars, derVars>>

\* fetchUtxos([senderAddress]) answers: accounting, selection, first input fetch
SenderUtxosReturn(a) ==
    /\ pc[a] = "senderUtxos"
    /\ \E ok \in BOOLEAN :
         IF ~ok
         THEN Becomes(a, Thrown("FetchUtxosFailed", loc[a], tx[a], calls[a]))
         ELSE Becomes(a, AfterSenderUtxos(loc[a], req[a], tx[a], calls[a], tokenConfig.fees))
    /\ UNCHANGED <<worldVars, sdkVars, req, job, selVars, derVars>>

\* fetchTransaction(utxo.txid) answers: the input is added; after the last
\* input the outputs are added and the signing job is submitted
FetchTransactionReturn(a) ==
    /\ pc[a] = "fetchTransaction"
    /\ \E ok \in BOOLEAN :
         LET k  == Len(tx[a].inputs) + 1
             t2 == [tx[a] EXCEPT !.inputs = Append(@, NewInput(loc[a].selectedUtxos[k]))]
         IN  IF ~ok
             THEN Becomes(a, Thrown("FetchTransactionFailed", loc[a], tx[a], calls[a]))
             ELSE IF k < Len(loc[a].selectedUtxos)
             THEN Becomes(a, [pc |-> "fetchTransaction", err |-> "none", loc |-> loc[a],
                              tx |-> t2, calls |-> Called(calls[a], "fetchTransaction")])
             ELSE Becomes(a, AfterInputs(loc[a], req[a], t2, calls[a]))
    /\ UNCHANGED <<worldVars, sdkVars, req, job, selVars, derVars>>

\* createTransaction answers: the job exists at the signer; waitForSignature
\* sends its first status fetch
CreateTransactionReturn(a) ==
    /\ pc[a] = "createTransaction"
    /\ \E ok \in BOOLEAN :
         IF ~ok
         THEN /\ Becomes(a, Thrown("CreateTransactionFailed", loc[a], tx[a], calls[a]))
              /\ UNCHANGED job
         ELSE /\ job' = [job EXCEPT ![a] =
                    [created |-> job[a].created + 1, status |-> "SUBMITTED",
                     messages |-> Messages(HashesWithIndices(tx[a], loc[a].sigRequests)),
                     signedMessages |-> <<>>]]
              /\ Becomes(a, [pc |-> "getTransactionFirst", err |-> "none", loc |-> loc[a],
                             tx |-> tx[a], calls |-> Called(calls[a], "getTransaction")])
    /\ UNCHANGED <<worldVars, sdkVars, req, selVars, derVars>>

\* the signer moves the job on: SUBMITTED, PENDING_SIGNATURE, then a terminal
\* status, which it keeps; with a success status come the signed messages
JobAdvance(a) ==
    /\ pc[a] \in {"getTransactionFirst", "sleep", "getTransaction"}
    /\ job[a].status \in PendingStates
    /\ \E st \in (SuccessStates \cup FailureStates \cup {"PENDING_SIGNATURE"}) \ {job[a].status} :
         IF st \in SuccessStates
         THEN \E malformed \in BOOLEAN :
                \E signed \in Responses(job[a].messages, malformed) :
                   job' = [job EXCEPT ![a].status = st, ![a].signedMessages = signed]
         ELSE job' = [job EXCEPT ![a].status = st]
    /\ UNCHANGED <<worldVars, sdkVars, pc, req, err, loc, tx, calls, selVars, derVars>>

\* the first getTransaction of waitForSignature answers (lines 20-32): the
\* status is only tested by the while condition
GetTransactionFirstReturn(a) ==
    /\ pc[a] = "getTransactionFirst"
    /\ \E ok \in BOOLEAN :
         IF ~ok
         THEN Becomes(a, Thrown("GetTransactionFailed", loc[a], tx[a], calls[a]))
         ELSE IF WaitLoopContinues(job[a].status)
         THEN Becomes(a, [pc |-> "sleep", err |-> "none",
                          loc |-> [loc[a] EXCEPT !.lastStatus = job[a].status],
                          tx |-> tx[a], calls |-> calls[a]])
         ELSE Becomes(a, AfterSigned(loc[a], tx[a], calls[a], job[a].status,
                                     job[a].signedMessages))
    /\ UNCHANGED <<worldVars, sdkVars, req, job, selVars, derVars>>

\* the polling interval has elapsed: the next getTransaction is sent
SleepElapsed(a) ==
    /\ pc[a] = "sleep"
    /\ Becomes(a, [pc |-> "getTransaction", err |-> "none", loc |-> loc[a], tx |-> tx[a],
                   calls |-> Called(calls[a], "getTransaction")])
    /\ UNCHANGED <<worldVars, sdkVars, req, job, selVars, derVars>>

\* a getTransaction inside the loop answers (lines 37-59): failure statuses
\* throw, then the while condition is tested again
GetTransactionReturn(a) ==
    /\ pc[a] = "getTransaction"
    /\ \E ok \in BOOLEAN :
         IF ~ok
         THEN Becomes(a, Thrown("GetTransactionFailed", loc[a], tx[a], calls[a]))
         ELSE IF WaitThrows(job[a].status)
         THEN Becomes(a, Thrown("SigningFailed",
                                [loc[a] EXCEPT !.lastStatus = job[a].status], tx[a], calls[a]))
         ELSE IF WaitLoopContinues(job[a].status)
         THEN Becomes(a, [pc |-> "sleep", err |-> "none",
                          loc |-> [loc[a] EXCEPT !.lastStatus = job[a].status],
                          tx |-> tx[a], calls |-> calls[a]])
         ELSE Becomes(a, AfterSigned(loc[a], tx[a], calls[a], job[a].status,
                                     job[a].signedMessages))
    /\ UNCHANGED <<worldVars, sdkVars, req, job, selVars, derVars>>

\* the cosigner answers the submission
SubmitTransactionReturn(a) ==
    /\ pc[a] = "submitTransaction"
    /\ \E response \in SubmitResponses :
         LET l == [loc[a] EXCEPT !.submitResponse = response]
         IN  IF response.kind = "accepted"
             THEN Becomes(a, [pc |-> "done", err |-> "none", loc |-> l, tx |-> tx[a],
                              calls |-> calls[a]])
             ELSE Becomes(a, Thrown(submitTransactionError(response), l, tx[a], calls[a]))
    /\ UNCHANGED <<worldVars, sdkVars, req, job, selVars, derVars>>

(***************************************************************************)
(* Spec: one transfer attempt on a fresh SDK instance, for every vault,    *)
(* UTXO index, fee table and request within the bounds.                    *)
(***************************************************************************)
NoDer == [ok |-> FALSE, error |-> "notCalled", sig |-> <<>>]

DerIdle ==
    /\ derR = 0
    /\ derS = 0
    /\ derScope = 0
    /\ derResult = NoDer
    /\ derAgain = NoDer

NoSelection ==
    [ok |-> FALSE, error |-> "notCalled", have |-> 0, need |-> 0,
     selectedUtxos |-> <<>>, signingAddresses |-> <<>>, tokensIn |-> 0]

Init ==
    /\ vaultAddresses \in Vaults
    /\ utxoIndex \in Indexes(vaultAddresses)
    /\ feeTiers \in FeeTables
    /\ intents = Requests
    /\ tokenConfig = NoConfig
    /\ cosignerConfig = NoConfig
    /\ pc = [a \in Attempts |-> IF a = 1 THEN "idle" ELSE "off"]
    /\ req = [a \in Attempts |-> NoRequest]
    /\ err = [a \in Attempts |-> "none"]
    /\ loc = [a \in Attempts |-> NoLocals]
    /\ tx = [a \in Attempts |-> NoTx]
    /\ job = [a \in Attempts |-> NoJob]
    /\ calls = [a \in Attempts |-> NoCalls]
    /\ selUtxos = <<>>
    /\ selNeeded = 0
    /\ selResult = NoSelection
    /\ DerIdle

Next ==
    \E a \in Attempts :
        \/ TransferTokensFromVault(a)
        \/ VaultAddressesReturn(a)
        \/ VaultUtxosReturn(a)
        \/ ConfigReturn(a)
        \/ SenderUtxosReturn(a)
        \/ FetchTransactionReturn(a)
        \/ CreateTransactionReturn(a)
        \/ JobAdvance(a)
        \/ GetTransactionFirstReturn(a)
        \/ SleepElapsed(a)
        \/ GetTransactionReturn(a)
        \/ SubmitTransactionReturn(a)

Spec == Init /\ [][Next]_vars

(***************************************************************************)
(* SpecLive: one transfer attempt from a vault of one address, with the    *)
(* scheduling the poll loop of waitForSignature runs under: a timer that   *)
(* was set fires, and a status request that was sent is answered or fails. *)
(* Nothing is assumed about the signer: the job may stay pending for ever. *)
(***************************************************************************)
InitLive ==
    /\ vaultAddresses = <<"A1">>
    /\ utxoIndex \in Indexes(vaultAddresses)
    /\ feeTiers \in FeeTables
    /\ intents = Requests
    /\ tokenConfig = NoConfig
    /\ cosignerConfig = NoConfig
    /\ pc = [a \in Attempts |-> IF a = 1 THEN "idle" ELSE "off"]
    /\ req = [a \in Attempts |-> NoRequest]
    /\ err = [a \in Attempts |-> "none"]
    /\ loc = [a \in Attempts |-> NoLocals]
    /\ tx = [a \in Attempts |-> NoTx]
    /\ job = [a \in Attempts |-> NoJob]
    /\ calls = [a \in Attempts |-> NoCalls]
    /\ selUtxos = <<>>
    /\ selNeeded = 0
    /\ selResult = NoSelection
    /\ DerIdle

PollFairness ==
    \A a \in Attempts :
        /\ WF_vars(GetTransactionFirstReturn(a))
        /\ WF_vars(SleepElapsed(a))
        /\ WF_vars(GetTransactionReturn(a))

SpecLive == InitLive /\ [][Next]_vars /\ PollFairness

(***************************************************************************)
(* SpecTwo: two transfer attempts started on one SDK instance, their       *)
(* awaits interleaved in every way, against one source address that holds  *)
(* two UTXOs; each attempt is a transfer of 2 tokens, net or gross.        *)
(***************************************************************************)
TwoIndex ==
    << [txid |-> 1, vout |-> 0, owner |-> "A1", amt |-> 2],
       [txid |-> 2, vout |-> 0, owner |-> "A1", amt |-> 1] >>

\* transfers of 2 tokens from the vault, net or gross
TwoRequests ==
    [vaultId : {"v1"}, hasAmount : {TRUE}, amount : {20}, grossAmount : BOOLEAN]

InitTwo ==
    /\ vaultAddresses = <<"A1">>
    /\ utxoIndex = TwoIndex
    /\ feeTiers = RegularFees
    /\ intents = TwoRequests
    /\ tokenConfig = NoConfig
    /\ cosignerConfig = NoConfig
    /\ pc = [a \in Attempts |-> "idle"]
    /\ req = [a \in Attempts |-> NoRequest]
    /\ err = [a \in Attempts |-> "none"]
    /\ loc = [a \in Attempts |-> NoLocals]
    /\ tx = [a \in Attempts |-> NoTx]
    /\ job = [a \in Attempts |-> NoJob]
    /\ calls = [a \in Attempts |-> NoCalls]
    /\ selUtxos = <<>>
    /\ selNeeded = 0
    /\ selResult = NoSelection
    /\ DerIdle

SpecTwo == InitTwo /\ [][Next]_vars

(***************************************************************************)
(* SpecFee: one transfer attempt from a vault of one address, under the    *)
(* fee tables of Spec and the table of the documented scenario, with UTXOs *)
(* large enough to cover the scenario's transfer.                          *)
(***************************************************************************)
InitFee ==
    /\ vaultAddresses = <<"A1">>
    /\ utxoIndex \in IndexesOver(vaultAddresses, ScenarioAmts)
    /\ feeTiers \in FeeTables \cup {ScenarioFees}
    /\ intents = Requests
    /\ tokenConfig = NoConfig
    /\ cosignerConfig = NoConfig
    /\ pc = [a \in Attempts |-> IF a = 1 THEN "idle" ELSE "off"]
    /\ req = [a \in Attempts |-> NoRequest]
    /\ err = [a \in Attempts |-> "none"]
    /\ loc = [a \in Attempts |-> NoLocals]
    /\ tx = [a \in Attempts |-> NoTx]
    /\ job = [a \in Attempts |-> NoJob]
    /\ calls = [a \in Attempts |-> NoCalls]
    /\ selUtxos = <<>>
    /\ selNeeded = 0
    /\ selResult = NoSelection
    /\ DerIdle

SpecFee == InitFee /\ [][Next]_vars

(***************************************************************************)
(* SpecSel: selectUtxos on its own, for every UTXO list and target within  *)
(* the bounds.                                                             *)
(***************************************************************************)
SelLists ==
    { [i \in 1..Len(s) |-> [txid |-> i, vout |-> 0, owner |-> "A1", amt |-> s[i]]] :
      s \in SeqsUpTo(0..SelMaxAmt, SelMaxLen) }

\* the documented scenario: UTXOs of 700, 200 and 150 tokens, target 850
SelScenarioUtxos ==
    << [txid |-> 1, vout |-> 0, owner |-> "A1", amt |-> 700],
       [txid |-> 2, vout |-> 0, owner |-> "A1", amt |-> 200],
       [txid |-> 3, vout |-> 0, owner |-> "A1", amt |-> 150] >>

SelScenarioTarget == 850

InitSel ==
    /\ vaultAddresses = <<>>
    /\ utxoIndex = <<>>
    /\ feeTiers = <<>>
    /\ intents = {}
    /\ tokenConfig = NoConfig
    /\ cosignerConfig = NoConfig
    /\ pc = [a \in Attempts |-> "off"]
    /\ req = [a \in Attempts |-> NoRequest]
    /\ err = [a \in Attempts |-> "none"]
    /\ loc = [a \in Attempts |-> NoLocals]
    /\ tx = [a \in Attempts |-> NoTx]
    /\ job = [a \in Attempts |-> NoJob]
    /\ calls = [a \in Attempts |-> NoCalls]
    /\ selUtxos \in SelLists \cup {SelScenarioUtxos}
    /\ selNeeded \in 1..(SelMaxAmt * SelMaxLen + 1) \cup {SelScenarioTarget}
    /\ selResult = NoSelection
    /\ DerIdle

\* selectUtxos(selUtxos, selNeeded) is called and returns or throws
SelectUtxosCall ==
    /\ selResult.error = "notCalled"
    /\ selResult' = selectUtxos(selUtxos, selNeeded)
    /\ UNCHANGED <<worldVars, sdkVars, pc, req, err, loc, tx, job, calls, selUtxos, selNeeded,
                   derVars>>

NextSel == SelectUtxosCall

SpecSel == InitSel /\ [][NextSel]_vars

(***************************************************************************)
(* SpecDer: createDERSignature on its own, for every r and s of up to      *)
(* DerMaxDigits digits and every sighash type, followed by a second call   *)
(* on the (r, s) read back from the first result.                          *)
(***************************************************************************)
\* the unsigned value of a Buffer
RECURSIVE ValueOf(_)
ValueOf(buffer) ==
    IF buffer = <<>> THEN 0
    ELSE ValueOf(SubSeq(buffer, 1, Len(buffer) - 1)) * ByteBase + buffer[Len(buffer)]

\* the r, s and sighash type a DER signature holds
DerDecode(sig) ==
    LET lenR == sig[4]
        lenS == sig[6 + lenR]
    IN  [r |-> ValueOf(SubSeq(sig, 5, 4 + lenR)),
         s |-> ValueOf(SubSeq(sig, 7 + lenR, 6 + lenR + lenS)),
         sigHashType |-> sig[Len(sig)]]

InitDer ==
    /\ vaultAddresses = <<>>
    /\ utxoIndex = <<>>
    /\ feeTiers = <<>>
    /\ intents = {}
    /\ tokenConfig = NoConfig
    /\ cosignerConfig = NoConfig
    /\ pc = [a \in Attempts |-> "off"]
    /\ req = [a \in Attempts |-> NoRequest]
    /\ err = [a \in Attempts |-> "none"]
    /\ loc = [a \in Attempts |-> NoLocals]
    /\ tx = [a \in Attempts |-> NoTx]
    /\ job = [a \in Attempts |-> NoJob]
    /\ calls = [a \in Attempts |-> NoCalls]
    /\ selUtxos = <<>>
    /\ selNeeded = 0
    /\ selResult = NoSelection
    /\ derR \in 0..(DigitBase ^ DerMaxDigits - 1)
    /\ derS \in 0..(DigitBase ^ DerMaxDigits - 1)
    /\ derScope \in SigHashTypes
    /\ derResult = NoDer
    /\ derAgain = NoDer

\* createDERSignature({r, s}, sigHashType) is called and returns or throws
CreateDERSignatureCall ==
    /\ derResult.error = "notCalled"
    /\ derResult' = createDERSignatureOf(derR, derS, derScope)
    /\ UNCHANGED <<worldVars, sdkVars, pc, req, err, loc, tx, job, calls, selVars,
                   derR, derS, derScope, derAgain>>

\* createDERSignature is called on the r and s read back from its own result
CreateDERSignatureAgain ==
    /\ derResult.ok
    /\ derAgain.error = "notCalled"
    /\ derAgain' = LET d == DerDecode(derResult.sig)
                   IN  createDERSignatureOf(d.r, d.s, d.sigHashType)
    /\ UNCHANGED <<worldVars, sdkVars, pc, req, err, loc, tx, job, calls, selVars,
                   derR, derS, derScope, derResult>>

NextDer == CreateDERSignatureCall \/ CreateDERSignatureAgain

SpecDer == InitDer /\ [][NextDer]_vars

(***************************************************************************)
(* Helpers of the properties.                                              *)
(***************************************************************************)
Active == {a \in Attempts : pc[a] \notin {"off", "idle"}}

\* the errors a failed submission surfaces
SubmitErrors ==
    {submitTransactionError(r) : r \in {x \in SubmitResponses : x.kind # "accepted"}}

\* the attempts that received the config and looked the fee up
Planned ==
    {a \in Active : /\ tokenConfig.loaded
                    /\ pc[a] \notin {"getVaultAddresses", "vaultUtxos", "vaultConfig"}}

AllUnsigned(t) ==
    \A i \in 1..Len(t.inputs) : t.inputs[i].unlockingScript.empty /\ t.inputs[i].writes = 0

\* every ordering of the elements of a sequence without repetitions
Orderings(s) ==
    {p \in SeqsUpTo(Range(s), Len(s)) :
        /\ Len(p) = Len(s)
        /\ \A i, j \in 1..Len(p) : p[i] = p[j] => i = j}

\* the hashes the attempt submitted for signing
SubmittedHashes(a) == HashesWithIndices(tx[a], loc[a].sigRequests)

\* the requests of attempt a for which the signer returned no signed message
Unanswered(a) ==
    {k \in 1..Len(loc[a].sigRequests) :
        \A m \in Range(job[a].signedMessages) :
            m.content # doubleHash(SubmittedHashes(a)[k].hash)}

(***************************************************************************)
(* C1. selectUtxos, for every UTXO list and every positive amountNeeded,   *)
(* either returns a selection of distinct UTXOs of the list whose amounts  *)
(* sum to tokensIn >= amountNeeded, or throws the insufficient-funds       *)
(* error; it never returns a selection that sums to less than amountNeeded.*)
(***************************************************************************)
C1_SelectionCoversOrFails ==
    selResult.error # "notCalled" =>
        \/ /\ selResult.ok
           /\ selResult.tokensIn = SumAmt(selResult.selectedUtxos)
           /\ selResult.tokensIn >= selNeeded
           /\ Range(selResult.selectedUtxos) \subseteq Range(selUtxos)
           /\ \A i, j \in 1..Len(selResult.selectedUtxos) :
                 selResult.selectedUtxos[i].txid = selResult.selectedUtxos[j].txid => i = j
        \/ /\ ~selResult.ok
           /\ selResult.error = "InsufficientFunds"
           /\ selResult.selectedUtxos = <<>>

\* a selection of several UTXOs that overshoots the target
C1_Witness ==
    /\ selResult.ok
    /\ Len(selResult.selectedUtxos) >= 2
    /\ selResult.tokensIn > selNeeded

(***************************************************************************)
(* C2. When an attempt has reached the cosigner submission, every input of *)
(* the transaction carries exactly one canonical signature: there is one   *)
(* signature request per input, one signature per request, and the         *)
(* unlocking script of every input was written exactly once, with the      *)
(* signature made for that input.                                          *)
(***************************************************************************)
C2_OneSignaturePerInput ==
    \A a \in Attempts :
        calls[a]["submitTransaction"] > 0 =>
            /\ Len(tx[a].inputs) = Len(loc[a].selectedUtxos)
            /\ Len(tx[a].inputs) >= 1
            /\ Len(loc[a].sigRequests) = Len(tx[a].inputs)
            /\ Len(loc[a].signatures) = Len(loc[a].sigRequests)
            /\ \A i \in 1..Len(tx[a].inputs) :
                  /\ loc[a].sigRequests[i].inputIndex = i
                  /\ ~tx[a].inputs[i].unlockingScript.empty
                  /\ tx[a].inputs[i].writes = 1
                  /\ tx[a].inputs[i].unlockingScript.sig.scope = SigHashType
                  /\ tx[a].inputs[i].unlockingScript.sig.der =
                        << doubleHash(SubmittedHashes(a)[i].hash),
                           doubleHash(SubmittedHashes(a)[i].hash) >>

\* a transaction of two inputs is at the cosigner
C2_Witness ==
    \E a \in Attempts :
        /\ pc[a] = "submitTransaction"
        /\ Len(tx[a].inputs) = 2

(***************************************************************************)
(* C3. A failing step ends the attempt with its error: an attempt has an   *)
(* error exactly when it is aborted, an aborted attempt makes no further   *)
(* step, no request is sent twice (no retry), the cosigner is never        *)
(* contacted in an attempt that failed before the submission, and a        *)
(* transaction is only ever submitted with every input signed.             *)
(***************************************************************************)
C3_Safe ==
    \A a \in Attempts :
        /\ (err[a] # "none") <=> (pc[a] = "aborted")
        /\ err[a] \notin {"none"} \cup SubmitErrors => calls[a]["submitTransaction"] = 0
        /\ calls[a]["submitTransaction"] > 0 =>
              \A i \in 1..Len(tx[a].inputs) : ~tx[a].inputs[i].unlockingScript.empty
        /\ \A k \in {"getVaultAddresses", "fetchConfig", "createTransaction",
                     "submitTransaction"} : calls[a][k] <= 1
        /\ calls[a]["fetchUtxos"] <= 2
        /\ calls[a]["fetchTransaction"] <= Len(loc[a].selectedUtxos)
        /\ job[a].created <= 1

C3_AbortedStays ==
    \A a \in Attempts :
        pc[a] = "aborted" =>
            /\ pc'[a] = "aborted"
            /\ err'[a] = err[a]
            /\ calls'[a] = calls[a]
            /\ tx'[a] = tx[a]

C3_ErrorsAbortWithoutSubmission == [](C3_Safe) /\ [][C3_AbortedStays]_vars

\* the signer answered for one of two inputs only: the attempt is aborted and
\* nothing was submitted
C3_Witness ==
    \E a \in Attempts :
        /\ pc[a] = "aborted"
        /\ err[a] = "UnmatchedSignature"
        /\ Len(tx[a].inputs) = 2
        /\ Len(job[a].signedMessages) = 1
        /\ calls[a]["submitTransaction"] = 0

(***************************************************************************)
(* C4. waitForSignature returns normally only with a job status of         *)
(* Completed or Broadcasting: signed messages are never read, and          *)
(* signatures never obtained, from a job in any other status.              *)
(***************************************************************************)
C4_ReturnsOnlyOnSuccess ==
    \A a \in Attempts :
        /\ loc[a].waitReturned =>
              /\ loc[a].lastStatus \in SuccessStates
              /\ job[a].status = loc[a].lastStatus
        /\ loc[a].signatures # <<>> => loc[a].waitReturned

\* the wait returned on Broadcasting
C4_Witness ==
    \E a \in Attempts :
        /\ loc[a].waitReturned
        /\ loc[a].lastStatus = "BROADCASTING"
        /\ loc[a].signatures # <<>>

(***************************************************************************)
(* C5. Whenever a status fetch of the signing job returns Blocked,         *)
(* Cancelled, Failed or Rejected, the coordinator fails at once with the   *)
(* signing-failed error: no sleep and no status fetch follows.  This is    *)
(* stated for every fetch, the first one after submission included.        *)
(***************************************************************************)
C5_FailsImmediately ==
    \A a \in Attempts :
        loc[a].lastStatus \in FailureStates =>
            /\ pc[a] = "aborted"
            /\ err[a] = "SigningFailed"

(***************************************************************************)
(* C6. When the signing job ended in a failure status, no signature is     *)
(* ever attached: every input keeps its empty unlocking script,            *)
(* applySignatures has not run and the cosigner is not contacted; the      *)
(* attempt cannot complete, and the signing-failed error reaches           *)
(* transferTokens with the draft still unsigned.                           *)
(***************************************************************************)
C6_FailedJobLeavesDraftUnsigned ==
    \A a \in Attempts :
        /\ job[a].status \in FailureStates =>
              /\ AllUnsigned(tx[a])
              /\ loc[a].signatures = <<>>
              /\ ~loc[a].waitReturned
              /\ calls[a]["submitTransaction"] = 0
              /\ pc[a] # "done"
              /\ pc[a] = "aborted" => err[a] \in {"SigningFailed", "GetTransactionFailed"}
        /\ err[a] = "SigningFailed" =>
              /\ job[a].status \in FailureStates
              /\ loc[a].lastStatus = job[a].status
              /\ Len(tx[a].inputs) >= 1

\* the job was rejected and the error reached the caller
C6_Witness ==
    \E a \in Attempts :
        /\ err[a] = "SigningFailed"
        /\ job[a].status = "REJECTED"
        /\ Len(tx[a].inputs) = 2
        /\ AllUnsigned(tx[a])

(***************************************************************************)
(* C7. Signatures are matched to inputs by content, not by position: once  *)
(* the signer has answered every submitted message, signMultipleHashes     *)
(* returns, for every ordering of the signed messages, the same result,    *)
(* whose k-th entry has the input index of the k-th request and the r, s,  *)
(* v and public key of the signed message whose content is the second hash *)
(* of that input's signature hash.                                         *)
(***************************************************************************)
C7_MatchedByContent ==
    \A a \in Attempts :
        (loc[a].waitReturned /\ job[a].signedMessages # <<>> /\ Unanswered(a) = {}) =>
            LET hashes == SubmittedHashes(a)
                result == MatchSignatures(hashes, job[a].signedMessages)
            IN  /\ result.error = "none"
                /\ Len(result.signatures) = Len(hashes)
                /\ \A p \in Orderings(job[a].signedMessages) :
                      MatchSignatures(hashes, p) = result
                /\ \A k \in 1..Len(hashes) :
                      /\ result.signatures[k].inputIndex = loc[a].sigRequests[k].inputIndex
                      /\ \E m \in Range(job[a].signedMessages) :
                            /\ m.content = doubleHash(hashes[k].hash)
                            /\ result.signatures[k].signature =
                                  [r |-> m.signature.r, s |-> m.signature.s,
                                   v |-> m.signature.v, pubKey |-> m.publicKey]
                /\ loc[a].signatures # <<>> =>
                      \A k \in 1..Len(hashes) :
                          /\ loc[a].signatures[k].inputIndex = result.signatures[k].inputIndex
                          /\ loc[a].signatures[k].pubKey = result.signatures[k].signature.pubKey
                          /\ loc[a].signatures[k].sig.der =
                                << result.signatures[k].signature.r.of,
                                   result.signatures[k].signature.s.of >>

\* the signer returned the two signed messages in the reverse of request order
C7_Witness ==
    \E a \in Attempts :
        /\ pc[a] = "submitTransaction"
        /\ Len(job[a].signedMessages) = 2
        /\ job[a].signedMessages[1].content = doubleHash(SubmittedHashes(a)[2].hash)
        /\ job[a].signedMessages[2].content = doubleHash(SubmittedHashes(a)[1].hash)

C9_InvalidRequestMakesNoCall ==
    \A a \in Active :
        (req[a].vaultId = "" \/ (req[a].hasAmount /\ req[a].amount <= 0)) =>
            /\ pc[a] = "aborted"
            /\ \A k \in CallKinds : calls[a][k] = 0

(***************************************************************************)
(* C10. For every transfer that built its outputs, with requested amount A *)
(* and fee F: in gross mode the recipient output carries A - F and the     *)
(* selection target is A; in net mode the recipient output carries A and   *)
(* the target is A + F.  Gross mode is used exactly when the caller asked  *)
(* for it (a full-balance withdrawal asks for it) or the amount equals the *)
(* tokens available at the source address; otherwise the mode is net.      *)
(***************************************************************************)
C10_GrossNetArithmetic ==
    \A a \in Attempts :
        tx[a].outputs # <<>> =>
            LET A == loc[a].satoshiAmount
                F == loc[a].fee
                target == IF loc[a].useGrossAmount THEN A ELSE A + F
                picked == selectUtxos(loc[a].utxos, target)
            IN  /\ A = IF req[a].hasAmount THEN tokensToSatoshis(req[a].amount)
                       ELSE loc[a].vaultTotal
                /\ FindFee(tokenConfig.fees, A) = [found |-> TRUE, fee |-> F]
                /\ tx[a].outputs[1].to = "recipient"
                /\ tx[a].outputs[1].amt = IF loc[a].useGrossAmount THEN A - F ELSE A
                /\ loc[a].amountNeeded = target
                /\ picked.ok
                /\ loc[a].selectedUtxos = picked.selectedUtxos
                /\ loc[a].tokensIn >= target
                /\ loc[a].useGrossAmount <=>
                      (req[a].grossAmount \/ ~req[a].hasAmount
                         \/ A = loc[a].totalAvailableTokens)
                /\ (req[a].hasAmount /\ ~req[a].grossAmount
                      /\ A # loc[a].totalAvailableTokens) => ~loc[a].useGrossAmount

\* a net transfer with a fee and change
C10_Witness ==
    \E a \in Attempts :
        /\ Len(tx[a].outputs) = 3
        /\ ~loc[a].useGrossAmount
        /\ loc[a].fee > 0

\* a gross transfer with a fee
C10_WitnessGross ==
    \E a \in Attempts :
        /\ tx[a].outputs # <<>>
        /\ loc[a].useGrossAmount
        /\ loc[a].fee > 0

(***************************************************************************)
(* C11. For every built transaction the token amounts of the outputs       *)
(* conserve the selected inputs: the first output carries the recipient    *)
(* amount, the second the fee, a third (if any) the change, and            *)
(* tokensSelected = recipientAmount + fee + changeAmount, the change       *)
(* counting 0 when there is no change output; in gross and in net mode.    *)
(***************************************************************************)
C11_ChangeConservation ==
    \A a \in Attempts :
        tx[a].outputs # <<>> =>
            LET outs   == tx[a].outputs
                change == IF Len(outs) >= 3 THEN outs[3].amt ELSE 0
            IN  /\ Len(outs) \in {2, 3}
                /\ outs[1].amt = loc[a].tokenSatAmt
                /\ outs[2].amt = loc[a].fee
                /\ loc[a].tokensIn = SumAmt(loc[a].selectedUtxos)
                /\ SumAmt(loc[a].selectedUtxos) = outs[1].amt + outs[2].amt + change
                /\ SumAmt(outs) = SumAmt(loc[a].selectedUtxos)

\* a gross transfer of two inputs with a fee and change
C11_Witness ==
    \E a \in Attempts :
        /\ Len(tx[a].outputs) = 3
        /\ Len(tx[a].inputs) = 2
        /\ loc[a].useGrossAmount
        /\ loc[a].fee > 0

(***************************************************************************)
(* C12. A built transaction has a change output exactly when               *)
(* tokensSelected - amountNeeded > 0: it is then the third output, locked  *)
(* to the source address and carrying that difference; otherwise the       *)
(* transaction has exactly two outputs, recipient then fee.                *)
(***************************************************************************)
C12_ChangeIffPositive ==
    \A a \in Attempts :
        tx[a].outputs # <<>> =>
            LET outs == tx[a].outputs
                diff == SumAmt(loc[a].selectedUtxos) - loc[a].amountNeeded
            IN  /\ outs[1].to = "recipient"
                /\ outs[2].to = "feeAddress"
                /\ diff >= 0
                /\ (diff > 0) <=> (Len(outs) = 3)
                /\ (diff = 0) <=> (Len(outs) = 2)
                /\ Len(outs) = 3 =>
                      /\ outs[3].to = loc[a].senderAddress
                      /\ outs[3].amt = diff

\* two inputs that match the target exactly: two outputs
C12_Witness ==
    \E a \in Attempts :
        /\ Len(tx[a].outputs) = 2
        /\ Len(tx[a].inputs) = 2
        /\ loc[a].tokensIn = loc[a].amountNeeded

(***************************************************************************)
(* C13. The fee of a transfer is the fee of the first tier, in table       *)
(* order, with min <= amount <= max, looked up on the requested amount     *)
(* (the vault's total for a full-balance withdrawal).  When no tier        *)
(* contains the amount the transfer fails with the no-fee-tier error and   *)
(* nothing is built: no fee is substituted.  A matching tier whose fee is  *)
(* 0 is a match.  With tiers {0,100,1}, {101,100000,5} a net transfer of   *)
(* 50 resolves fee 1 and coverage 51.                                      *)
(***************************************************************************)
C13_FeeIsFirstMatchingTier ==
    \A a \in Planned :
        LET A     == IF req[a].hasAmount THEN tokensToSatoshis(req[a].amount)
                     ELSE SumAmt(loc[a].vaultUtxos)
            fees  == tokenConfig.fees
            tiers == {i \in 1..Len(fees) : fees[i].min <= A /\ A <= fees[i].max}
            first == CHOOSE i \in tiers : \A j \in tiers : i <= j
        IN  /\ fees = feeTiers
            /\ tiers = {} =>
                  /\ pc[a] = "aborted"
                  /\ err[a] = IF req[a].hasAmount THEN "NoFeeTier" ELSE "NoFeeTierForBalance"
                  /\ tx[a] = NoTx
                  /\ loc[a].selectedUtxos = <<>>
                  /\ job[a].created = 0
            /\ tiers # {} =>
                  /\ err[a] \notin {"NoFeeTier", "NoFeeTierForBalance"}
                  /\ tx[a].outputs # <<>> =>
                        /\ loc[a].satoshiAmount = A
                        /\ loc[a].fee = fees[first].fee
                        /\ tx[a].outputs[2].amt = fees[first].fee
            /\ (/\ fees = ScenarioFees
                /\ req[a].hasAmount /\ req[a].amount = 500 /\ ~req[a].grossAmount
                /\ tx[a].outputs # <<>>) =>
                  /\ loc[a].fee = 1
                  /\ loc[a].amountNeeded = 51
                  /\ tx[a].outputs[1].amt = 50

\* the documented scenario: a net transfer of 50 built with fee 1, coverage 51
C13_Witness ==
    \E a \in Planned :
        /\ feeTiers = ScenarioFees
        /\ req[a].hasAmount /\ req[a].amount = 500 /\ ~req[a].grossAmount
        /\ tx[a].outputs # <<>>
        /\ loc[a].fee = 1
        /\ loc[a].amountNeeded = 51

\* a transfer built with the fee of a zero-fee tier
C13_WitnessZeroFee ==
    \E a \in Planned :
        /\ tx[a].outputs # <<>>
        /\ loc[a].fee = 0

\* a transfer built with an amount that two tiers contain
C13_WitnessFirstOfTwo ==
    \E a \in Planned :
        /\ tx[a].outputs # <<>>
        /\ Cardinality({i \in 1..Len(feeTiers) :
               feeTiers[i].min <= loc[a].satoshiAmount
               /\ loc[a].satoshiAmount <= feeTiers[i].max}) = 2

(***************************************************************************)
(* C14. A transfer through transferTokensFromVault with an explicit amount *)
(* equal to the vault's whole balance and no gross flag is processed in    *)
(* gross mode: it does not fail for lack of amount + fee, and when built   *)
(* the recipient receives amount - fee and the coverage target is amount.  *)
(***************************************************************************)
C14_EmptyingIsGross ==
    \A a \in Planned :
        LET A    == tokensToSatoshis(req[a].amount)
            tier == FindFee(tokenConfig.fees, A)
        IN  (/\ req[a].hasAmount /\ ~req[a].grossAmount
             /\ A >= 1
             /\ A = SumAmt(loc[a].vaultUtxos)
             /\ tier.found /\ A - tier.fee > 0) =>
                /\ err[a] \notin {"InsufficientBalance", "InsufficientFunds"}
                /\ tx[a].outputs # <<>> =>
                      /\ loc[a].useGrossAmount
                      /\ tx[a].outputs[1].amt = A - tier.fee
                      /\ loc[a].amountNeeded = A

(***************************************************************************)
(* C15. With the amount omitted, transferTokensFromVault sends the vault's *)
(* full balance: once the fee checks passed, the transfer does not fail    *)
(* for lack of funds; the amount is the sum over the UTXOs of all the      *)
(* vault's addresses, the mode is gross, every one of those UTXOs is an    *)
(* input, the recipient receives total - fee and there is no change        *)
(* output.  Stated for vaults of one and of several funded addresses.      *)
(***************************************************************************)
C15_FullBalanceSendsAll ==
    \A a \in Planned :
        LET total == SumAmt(loc[a].vaultUtxos)
            tier  == FindFee(tokenConfig.fees, total)
        IN  (~req[a].hasAmount /\ tier.found /\ total > tier.fee) =>
                /\ err[a] \notin {"InsufficientFunds", "InsufficientBalance", "AmountTooSmall",
                                  "NoFeeTier", "InsufficientForFeeEmptying"}
                /\ tx[a].outputs # <<>> =>
                      /\ loc[a].satoshiAmount = total
                      /\ loc[a].useGrossAmount
                      /\ Range(loc[a].selectedUtxos) = Range(loc[a].vaultUtxos)
                      /\ Len(tx[a].inputs) = Len(loc[a].vaultUtxos)
                      /\ tx[a].outputs[1].amt = total - tier.fee
                      /\ Len(tx[a].outputs) = 2

(***************************************************************************)
(* C16. A transfer for which gross mode was decided and whose post-fee     *)
(* amount (amount - fee) is <= 0 fails with the amount-too-small error; a  *)
(* full-balance withdrawal whose total is <= the resolved fee fails with   *)
(* the insufficient-for-fee error.  In both cases no input was selected,   *)
(* no transaction built, no source transaction fetched and no signing job  *)
(* created.                                                                *)
(***************************************************************************)
C16_GrossFundErrors ==
    \A a \in Planned :
        LET tier      == FindFee(tokenConfig.fees, loc[a].satoshiAmount)
            total     == SumAmt(loc[a].vaultUtxos)
            totalTier == FindFee(tokenConfig.fees, total)
            untouched == /\ pc[a] = "aborted"
                         /\ loc[a].selectedUtxos = <<>>
                         /\ tx[a] = NoTx
                         /\ job[a].created = 0
                         /\ calls[a]["fetchTransaction"] = 0
                         /\ calls[a]["createTransaction"] = 0
                         /\ calls[a]["submitTransaction"] = 0
        IN  /\ (/\ loc[a].useGrossAmount
                /\ tier.found
                /\ loc[a].satoshiAmount - tier.fee <= 0) =>
                   /\ err[a] = "AmountTooSmall"
                   /\ untouched
            /\ (~req[a].hasAmount /\ totalTier.found /\ total <= totalTier.fee) =>
                   /\ err[a] = "InsufficientForFee"
                   /\ untouched
                   /\ calls[a]["fetchUtxos"] = 1

\* a gross transfer of an amount equal to its fee
C16_Witness ==
    \E a \in Planned :
        /\ req[a].hasAmount /\ req[a].grossAmount
        /\ loc[a].useGrossAmount
        /\ loc[a].satoshiAmount >= 1
        /\ loc[a].satoshiAmount = loc[a].fee
        /\ err[a] = "AmountTooSmall"

\* a full-balance withdrawal from a vault that holds no more than the fee
C16_WitnessFullBalance ==
    \E a \in Planned :
        /\ ~req[a].hasAmount
        /\ SumAmt(loc[a].vaultUtxos) >= 1
        /\ err[a] = "InsufficientForFee"

(***************************************************************************)
(* C17. submitTransaction maps each kind of cosigner rejection to its own  *)
(* error.  The kind of a rejection is read off its status and message as   *)
(* the cosigner sends them: status 423 with a message containing "frozen"  *)
(* is a frozen address, status 423 with a message containing "blacklisted" *)
(* (and not "frozen") a blacklisted recipient, status 503 with a message   *)
(* containing "cosigner is paused" a paused service, and everything else   *)
(* a generic rejection.  A frozen, blacklisted or paused rejection aborts   *)
(* the attempt with the error of its kind, these three errors differ from  *)
(* each other, and a generic rejection yields none of the three.           *)
(***************************************************************************)
C17_RejectionKindsAreDistinct ==
    \A a \in Attempts :
        loc[a].submitResponse.kind = "rejected" =>
            LET status  == loc[a].submitResponse.status
                words   == loc[a].submitResponse.message.words
                frozen  == status = 423 /\ "frozen" \in words
                listed  == status = 423 /\ "blacklisted" \in words /\ ~frozen
                paused  == status = 503 /\ "cosigner is paused" \in words
                AddressFrozen ==
                    "Your address is currently frozen and cannot send tokens"
                AddressBlacklisted ==
                    "The recipient address is blacklisted and cannot receive tokens"
                ServicePaused ==
                    "Token transfers are currently paused by the administrator"
            IN  /\ pc[a] = "aborted"
                /\ Cardinality({AddressFrozen, AddressBlacklisted, ServicePaused}) = 3
                /\ frozen => err[a] = AddressFrozen
                /\ listed => err[a] = AddressBlacklisted
                /\ paused => err[a] = ServicePaused
                /\ (~frozen /\ ~listed /\ ~paused) =>
                      err[a] \notin {"none", AddressFrozen, AddressBlacklisted, ServicePaused}

\* the cosigner answered 423 with a message about a frozen address
C17_Witness ==
    \E a \in Attempts :
        /\ loc[a].submitResponse.kind = "rejected"
        /\ loc[a].submitResponse.status = 423
        /\ loc[a].submitResponse.message.words = {"frozen"}
        /\ err[a] = "Your address is currently frozen and cannot send tokens"

(***************************************************************************)
(* C18. Every error raised from a cosigner rejection carries the message   *)
(* text of the cosigner's response.  (No message text of the model is part *)
(* of one of the fixed texts of submitTransaction, so an error carries the *)
(* cosigner's text exactly when it is that text.)                          *)
(***************************************************************************)
C18_RejectionKeepsMessage ==
    \A a \in Attempts :
        (/\ loc[a].submitResponse.kind = "rejected"
         /\ loc[a].submitResponse.message.present) =>
            err[a] = loc[a].submitResponse.message.text

(***************************************************************************)
(* C19. For every (r, s) that createDERSignature accepts, the s encoded in *)
(* the result is at most curveOrder / 2: it is curveOrder - s when         *)
(* s > curveOrder / 2 and s itself otherwise; the r encoded in the result  *)
(* is the r given.                                                         *)
(***************************************************************************)
C19_LowS ==
    derResult.ok =>
        LET d == DerDecode(derResult.sig)
        IN  /\ d.s <= HalfN
            /\ d.s = IF derS > HalfN THEN CurveOrder - derS ELSE derS
            /\ d.r = derR

(***************************************************************************)
(* C20. Canonicalization is idempotent: createDERSignature applied to the  *)
(* (r, s) read back from its own result, with the same sighash type,       *)
(* returns the same bytes.                                                 *)
(***************************************************************************)
C20_Idempotent ==
    derAgain.error # "notCalled" =>
        /\ derResult.ok
        /\ derAgain.ok
        /\ derAgain.sig = derResult.sig
        /\ derAgain.sig[Len(derAgain.sig)] = derScope

\* an s in the upper half was replaced, and the second call changed nothing
C20_Witness ==
    /\ derAgain.ok
    /\ derS > HalfN
    /\ derS < CurveOrder
    /\ DerDecode(derResult.sig).s = CurveOrder - derS
    /\ HighBit(toDER(BufferFromHex(padStart(toString16(derR))))[1]) = FALSE
    /\ Len(toDER(BufferFromHex(padStart(toString16(derR))))) = WordBytes + 1

(***************************************************************************)
(* The encoding of one signature component as the contract words it: the   *)
(* big-endian bytes of the value with every leading zero byte stripped     *)
(* (none for the value 0), and one zero byte in front exactly when the     *)
(* first remaining byte has its high bit set.                              *)
(***************************************************************************)
RECURSIVE BytesOf(_)
BytesOf(v) ==
    IF v <= 0 THEN <<>> ELSE Append(BytesOf(v \div ByteBase), v % ByteBase)

DerInteger(v) ==
    LET bytes == BytesOf(v)
    IN  IF bytes # <<>> /\ HighBit(bytes[1]) THEN <<0>> \o bytes ELSE bytes

\* the layout of the result for two encoded components and a scope byte
DerLayout(R, S, scope) ==
    <<48, 4 + Len(R) + Len(S), 2, Len(R)>> \o R \o <<2, Len(S)>> \o S \o <<scope>>

(***************************************************************************)
(* C21. The result of createDERSignature is byte-exact DER plus scope:     *)
(* 0x30, 4 + |R| + |S|, 0x02, |R|, R, 0x02, |S|, S and one scope byte,     *)
(* where R and S are the stripped big-endian bytes of r and of the low-S   *)
(* s, with a zero byte in front exactly when the high bit is set; and a    *)
(* component whose encoding is empty or longer than WordBytes + 1 bytes    *)
(* (33 in the code) is rejected with an error instead of being encoded.    *)
(***************************************************************************)
C21_ByteExactDER ==
    derResult.error # "notCalled" =>
        LET R == DerInteger(derR)
            S == DerInteger(IF derS > HalfN THEN CurveOrder - derS ELSE derS)
            rejected(c) == c = <<>> \/ Len(c) > WordBytes + 1
        IN  /\ (rejected(R) \/ rejected(S)) => ~derResult.ok
            /\ derResult.ok => derResult.sig = DerLayout(R, S, derScope)
            /\ ~derResult.ok => derResult.error # "none" /\ derResult.sig = <<>>

(***************************************************************************)
(* Helpers of the selection properties: the k-th pick of a returned        *)
(* selection, the gap before it and the UTXOs still in the pool then.      *)
(***************************************************************************)
SelGapBefore(k) == selNeeded - SumAmt(SubSeq(selResult.selectedUtxos, 1, k - 1))

SelPoolBefore(k) ==
    {u \in Range(selUtxos) :
        \A j \in 1..(k - 1) : selResult.selectedUtxos[j].txid # u.txid}

(***************************************************************************)
(* C22. Every pick of a returned selection follows the three-level         *)
(* preference over the UTXOs still in the pool: a UTXO whose amount equals *)
(* the remaining gap if there is one, else the smallest UTXO with amount   *)
(* >= the gap, else the largest remaining UTXO; a chosen UTXO is never     *)
(* chosen again.  The candidates are scanned in descending order of amount *)
(* with ties in original order: among equal amounts an exact match and a   *)
(* largest pick take the earliest, a smallest-sufficient pick the latest.  *)
(* For UTXOs [700, 200, 150] and target 850 the selection is [700, 150],   *)
(* total 850, change 0.                                                    *)
(***************************************************************************)
C22_GreedyPreference ==
    selResult.ok =>
        /\ \A k \in 1..Len(selResult.selectedUtxos) :
              LET chosen  == selResult.selectedUtxos[k]
                  gap     == SelGapBefore(k)
                  pool    == SelPoolBefore(k)
                  perfect == {u \in pool : u.amt = gap}
                  enough  == {u \in pool : u.amt >= gap}
              IN  /\ gap > 0
                  /\ chosen \in pool
                  /\ IF perfect # {}
                     THEN /\ chosen \in perfect
                          /\ \A u \in perfect : chosen.txid <= u.txid
                     ELSE IF enough # {}
                     THEN /\ chosen \in enough
                          /\ \A u \in enough : chosen.amt <= u.amt
                          /\ \A u \in enough : u.amt = chosen.amt => u.txid <= chosen.txid
                     ELSE /\ \A u \in pool : chosen.amt >= u.amt
                          /\ \A u \in pool : u.amt = chosen.amt => chosen.txid <= u.txid
        /\ (selUtxos = SelScenarioUtxos /\ selNeeded = SelScenarioTarget) =>
              /\ [k \in 1..Len(selResult.selectedUtxos) |-> selResult.selectedUtxos[k].amt]
                    = <<700, 150>>
              /\ selResult.tokensIn = 850
              /\ selResult.tokensIn - selNeeded = 0

\* the documented scenario was selected
C22_Witness ==
    /\ selUtxos = SelScenarioUtxos
    /\ selNeeded = SelScenarioTarget
    /\ selResult.ok
    /\ Len(selResult.selectedUtxos) = 2

\* the largest UTXO, then the smallest sufficient one with a larger one left aside
C22_WitnessLevels ==
    /\ selResult.ok
    /\ Len(selResult.selectedUtxos) = 2
    /\ selResult.tokensIn > selNeeded
    /\ \E u \in SelPoolBefore(3) : u.amt > selResult.selectedUtxos[2].amt

(***************************************************************************)
(* C23. selectUtxos throws the insufficient-funds error exactly when the   *)
(* amounts of all available UTXOs sum to less than amountNeeded; the error *)
(* then reports that sum as the accumulated amount and amountNeeded as the *)
(* required amount.                                                        *)
(***************************************************************************)
C23_FailsIffPoolTooSmall ==
    selResult.error # "notCalled" =>
        /\ ~selResult.ok <=> SumAmt(selUtxos) < selNeeded
        /\ ~selResult.ok =>
              /\ selResult.error = "InsufficientFunds"
              /\ selResult.have = SumAmt(selUtxos)
              /\ selResult.need = selNeeded
        /\ selResult.ok => selResult.error = "none"

\* three UTXOs that together fall one short of the target
C23_Witness ==
    /\ selResult.error = "InsufficientFunds"
    /\ Len(selUtxos) = 3
    /\ selResult.have = selNeeded - 1
    /\ \A i \in 1..Len(selUtxos) : selUtxos[i].amt > 0

\* a selection that needed every UTXO of the list
C23_WitnessAllUsed ==
    /\ selResult.ok
    /\ Len(selResult.selectedUtxos) = 3
    /\ Len(selUtxos) = 3
    /\ selResult.tokensIn = selNeeded

(***************************************************************************)
(* C24. A returned selection has no redundant input: with non-negative     *)
(* amounts and a positive target, the selection without any one of its     *)
(* UTXOs sums to less than the target; and whenever one available UTXO     *)
(* alone covers the target, exactly one UTXO is selected.                  *)
(***************************************************************************)
C24_NoRedundantInput ==
    selResult.ok =>
        /\ \A k \in 1..Len(selResult.selectedUtxos) :
              SumAmt(RemoveAt(selResult.selectedUtxos, k)) < selNeeded
        /\ (\E i \in 1..Len(selUtxos) : selUtxos[i].amt >= selNeeded) =>
              Len(selResult.selectedUtxos) = 1

\* three inputs that overshoot the target, each of them needed
C24_Witness ==
    /\ selResult.ok
    /\ Len(selResult.selectedUtxos) = 3
    /\ selResult.tokensIn > selNeeded
    /\ Len(selUtxos) = 4

\* one UTXO covers the target while smaller ones would have summed to it
C24_WitnessSingle ==
    /\ selResult.ok
    /\ Len(selResult.selectedUtxos) = 1
    /\ selResult.tokensIn > selNeeded
    /\ SumAmt(selUtxos) - selResult.tokensIn >= selNeeded

(***************************************************************************)
(* Helpers of the poll-loop property.                                      *)
(***************************************************************************)
\* the positions of an attempt inside waitForSignature
WaitPcs == {"getTransactionFirst", "sleep", "getTransaction"}

\* attempt a left waitForSignature by its return or by a throw
WaitEnded(a) ==
    \/ loc[a].waitReturned
    \/ pc[a] = "aborted" /\ err[a] \in {"SigningFailed", "GetTransactionFailed"}

\* one step of the poll loop: a status check that does not end the wait is
\* followed by the sleep, and only the elapsed sleep sends the next check
PollStep ==
    \A a \in Attempts :
        /\ (pc[a] \in {"getTransactionFirst", "getTransaction"} /\ pc'[a] # pc[a]) =>
              \/ pc'[a] = "sleep"
              \/ WaitEnded(a)'
        /\ (pc'[a] = "getTransaction" /\ pc[a] # "getTransaction") => pc[a] = "sleep"
        /\ (pc[a] = "sleep" /\ pc'[a] # "sleep") => pc'[a] = "getTransaction"
        /\ (pc'[a] = "getTransactionFirst" /\ pc[a] # "getTransactionFirst") =>
              pc[a] = "createTransaction"

(***************************************************************************)
(* C25. The poll loop of waitForSignature terminates: once the signing job *)
(* is in a terminal status (which it keeps), an attempt that is inside     *)
(* waitForSignature eventually leaves it, by a return when the status is   *)
(* Completed or Broadcasting and by a throw when it is Blocked, Cancelled, *)
(* Failed or Rejected (or when a status request itself fails); the status  *)
(* checks of the loop are separated by one sleep each.                     *)
(***************************************************************************)
C25_PollLoopTerminates ==
    /\ \A a \in Attempts :
          (pc[a] \in WaitPcs /\ job[a].status \in SuccessStates \cup FailureStates)
             ~> (pc[a] \notin WaitPcs /\ WaitEnded(a))
    /\ [](\A a \in Attempts :
             /\ job[a].status \in SuccessStates /\ WaitEnded(a) =>
                   loc[a].waitReturned \/ err[a] = "GetTransactionFailed"
             /\ job[a].status \in FailureStates /\ WaitEnded(a) => pc[a] = "aborted")
    /\ [][PollStep]_vars

\* the job failed while the attempt slept, and the next check threw
C25_Witness ==
    \E a \in Attempts :
        /\ err[a] = "SigningFailed"
        /\ job[a].status = "FAILED"
        /\ loc[a].lastStatus = "FAILED"

\* the wait returned after the loop had slept at least once
C25_WitnessSlept ==
    \E a \in Attempts :
        /\ pc[a] = "getTransaction"
        /\ loc[a].lastStatus = "PENDING_SIGNATURE"
        /\ job[a].status = "COMPLETED"

(***************************************************************************)
(* Helpers of the single-pass property: the step of the orchestrator an    *)
(* attempt is in.  Selecting the inputs and attaching the signatures are   *)
(* synchronous: they happen inside the action that enters the next step.   *)
(***************************************************************************)
StepOf(p) ==
    CASE p \in {"off", "idle"} -> 0
      [] p \in {"getVaultAddresses", "vaultUtxos", "vaultConfig", "senderUtxos"} -> 1
      [] p = "fetchTransaction" -> 2
      [] p \in {"createTransaction", "getTransactionFirst", "sleep", "getTransaction"} -> 3
      [] p = "submitTransaction" -> 4
      [] p = "done" -> 5
      [] p = "aborted" -> 6

\* what each later step has in hand was produced by the steps before it, once
C26_Ordered ==
    \A a \in Attempts :
        /\ StepOf(pc[a]) \in 2..5 =>
              /\ calls[a]["fetchUtxos"] = 2
              /\ loc[a].selectedUtxos # <<>>
              /\ loc[a].tokensIn >= loc[a].amountNeeded
        /\ StepOf(pc[a]) \in 0..1 =>
              /\ loc[a].selectedUtxos = <<>>
              /\ tx[a] = NoTx
        /\ StepOf(pc[a]) \in 0..2 =>
              /\ tx[a].outputs = <<>>
              /\ job[a].created = 0
              /\ calls[a]["createTransaction"] = 0
        /\ StepOf(pc[a]) \in 0..3 =>
              /\ AllUnsigned(tx[a])
              /\ calls[a]["submitTransaction"] = 0
        /\ StepOf(pc[a]) \in 3..5 =>
              /\ Len(tx[a].inputs) = Len(loc[a].selectedUtxos)
              /\ \A i \in 1..Len(tx[a].inputs) :
                    tx[a].inputs[i].sourceTXID = loc[a].selectedUtxos[i].txid
              /\ Len(tx[a].outputs) \in {2, 3}
              /\ calls[a]["createTransaction"] = 1
              /\ calls[a]["fetchTransaction"] = Len(tx[a].inputs)
        /\ StepOf(pc[a]) \in 4..5 =>
              /\ job[a].created = 1
              /\ loc[a].waitReturned
              /\ \A i \in 1..Len(tx[a].inputs) : tx[a].inputs[i].writes = 1
              /\ calls[a]["submitTransaction"] = 1
        \* one signing job, holding one message per input, in input order
        /\ job[a].created <= 1
        /\ job[a].created = 1 =>
              /\ Len(job[a].messages) = Len(tx[a].inputs)
              /\ \A i \in 1..Len(tx[a].inputs) :
                    job[a].messages[i].content =
                        doubleHash(createSignatureHash(tx[a], i, SigHashType))
        \* no request is repeated; the balance is resolved by two UTXO queries
        /\ \A k \in {"getVaultAddresses", "fetchConfig", "createTransaction",
                     "submitTransaction"} : calls[a][k] <= 1
        /\ calls[a]["fetchUtxos"] <= 2
        /\ calls[a]["fetchTransaction"] <= Len(loc[a].selectedUtxos)

\* an attempt only moves forward, and what a finished step produced is kept
C26_Forward ==
    \A a \in Attempts :
        /\ StepOf(pc'[a]) >= StepOf(pc[a])
        /\ StepOf(pc[a]) >= 2 => loc'[a].selectedUtxos = loc[a].selectedUtxos
        /\ StepOf(pc[a]) >= 3 => tx'[a].outputs = tx[a].outputs
                                 /\ Len(tx'[a].inputs) = Len(tx[a].inputs)
        /\ job[a].created = 1 => job'[a].created = 1 /\ job'[a].messages = job[a].messages
        /\ StepOf(pc[a]) >= 4 => tx'[a] = tx[a]
        /\ \A k \in CallKinds : calls'[a][k] >= calls[a][k]

(***************************************************************************)
(* C26. A transfer attempt is single-pass: it goes through resolving the   *)
(* balance, selecting inputs, building the transaction, submitting and     *)
(* awaiting the signing job, attaching signatures, submitting to the       *)
(* cosigner and done in this order and never returns to an earlier step;   *)
(* every failure aborts.  One signing job is created per attempt, holding  *)
(* one message per input in input order; the cosigner submission happens   *)
(* at most once; no request is repeated.  (Resolving the balance is two    *)
(* UTXO queries, for the vault's addresses and then for the selected       *)
(* source address, both made before the selection.)                        *)
(***************************************************************************)
C26_SinglePass == [](C26_Ordered) /\ [][C26_Forward]_vars

\* an attempt of two inputs went through every step
C26_Witness ==
    \E a \in Attempts :
        /\ pc[a] = "done"
        /\ Len(tx[a].inputs) = 2
        /\ Len(job[a].messages) = 2
        /\ calls[a]["submitTransaction"] = 1

(***************************************************************************)
(* C27. The token configuration is loaded once: however the operations on  *)
(* one SDK instance interleave, two transfers started before the first     *)
(* config request has resolved included, at most one config request is     *)
(* sent to the token-policy service (a request that failed aside), and     *)
(* every use after the first load reads the cached value.                  *)
(***************************************************************************)
C27_ConfigLoadedOnce ==
    LET sent == {a \in Attempts : calls[a]["fetchConfig"] > 0}
    IN  /\ (\A a \in Attempts : err[a] # "FetchConfigFailed") =>
              /\ Cardinality(sent) <= 1
              /\ \A a \in Attempts : calls[a]["fetchConfig"] <= 1
        /\ tokenConfig.loaded => tokenConfig = cosignerConfig /\ tokenConfig.fees = feeTiers

(***************************************************************************)
(* C28. The core takes no lock on UTXOs.  What an attempt sees and selects *)
(* depends on the UTXO index and on its own request only, never on what    *)
(* another attempt has selected: its UTXOs are all the indexed UTXOs of    *)
(* its source address, its inputs are the selection made from them, and no *)
(* step changes the index.  So two attempts interleaved against the same   *)
(* source address can both select the same UTXO, obtain signatures and     *)
(* reach the cosigner submission (the witness).                            *)
(***************************************************************************)
C28_Independent ==
    \A a \in Attempts :
        LET mine == SelectSeq(utxoIndex, LAMBDA u : u.owner = loc[a].senderAddress)
        IN  /\ StepOf(pc[a]) \in 2..5 =>
                  /\ loc[a].utxos = mine
                  /\ loc[a].selectedUtxos =
                        selectUtxos(mine, loc[a].amountNeeded).selectedUtxos
                  /\ Len(tx[a].inputs) <= Len(loc[a].selectedUtxos)
                  /\ \A i \in 1..Len(tx[a].inputs) :
                        tx[a].inputs[i].sourceTXID = loc[a].selectedUtxos[i].txid
            \* a selection fails only when the indexed UTXOs do not cover it
            /\ err[a] = "InsufficientFunds" =>
                  /\ loc[a].utxos = mine
                  /\ ~selectUtxos(mine, loc[a].amountNeeded).ok

C28_NoUtxoLock == [](C28_Independent) /\ [][utxoIndex' = utxoIndex]_vars

\* both attempts spend the same UTXO, both hold signatures and both are at the
\* cosigner
C28_Witness ==
    /\ \A a \in Attempts :
          /\ pc[a] = "submitTransaction"
          /\ loc[a].signatures # <<>>
          /\ ~AllUnsigned(tx[a])
    /\ \E i \in 1..Len(tx[1].inputs), j \in 1..Len(tx[2].inputs) :
          /\ tx[1].inputs[i].sourceTXID = tx[2].inputs[j].sourceTXID
          /\ tx[1].inputs[i].sourceOutputIndex = tx[2].inputs[j].sourceOutputIndex

\* both attempts spent the same UTXOs and both were accepted by the cosigner
C28_WitnessBothDone ==
    /\ \A a \in Attempts : pc[a] = "done"
    /\ loc[1].selectedUtxos = loc[2].selectedUtxos
    /\ Len(loc[1].selectedUtxos) = 2

(***************************************************************************)
(* C29. When the balance pre-check of transferTokensFromVault passes (the  *)
(* tokens over the UTXOs of all the vault's addresses cover the amount in  *)
(* gross mode, the amount plus the fee in net mode), the input selection   *)
(* of the same attempt does not fail with insufficient funds, and a built  *)
(* transaction pays the recipient what the requested mode promises: the    *)
(* amount in net mode, the amount less the fee in gross mode.  The UTXO    *)
(* index does not change during an attempt; the vault's UTXOs may belong   *)
(* to more than one address.                                               *)
(***************************************************************************)
C29_PrecheckCoversSelection ==
    \A a \in Planned :
        LET total    == SumAmt(loc[a].vaultUtxos)
            A        == IF req[a].hasAmount THEN tokensToSatoshis(req[a].amount) ELSE total
            gross    == req[a].grossAmount \/ ~req[a].hasAmount
            tier     == FindFee(tokenConfig.fees, A)
            required == IF gross THEN A ELSE A + tier.fee
            passed   == /\ A > 0
                        /\ tier.found
                        /\ total >= required
                        /\ ~req[a].hasAmount => total > tier.fee
        IN  passed =>
                /\ err[a] \notin {"InsufficientFunds", "InsufficientBalance"}
                /\ tx[a].outputs # <<>> =>
                      tx[a].outputs[1].amt = IF gross THEN A - tier.fee ELSE A

(***************************************************************************)
(* C30. No built transaction contains a zero-value token output: the       *)
(* recipient output, the fee output and the change output (when present)   *)
(* each carry a strictly positive token amount, under every fee table,     *)
(* those with a tier whose fee is 0 included.                              *)
(***************************************************************************)
C30_NoZeroValueOutput ==
    \A a \in Attempts :
        \A i \in 1..Len(tx[a].outputs) : tx[a].outputs[i].amt > 0

=============================================================================
